---------------------------- MODULE Spec2Model ----------------------------
(***************************************************************************)
(* Scoring & contextual optimization engine of the IERS platform.          *)
(*                                                                         *)
(* The engine is a library of pure operations (score calculation,          *)
(* constraints, strategies, tie-breaking, Pareto optimisation).  A         *)
(* behaviour of this model is one call of one operation: the state holds   *)
(* the operation's name, the request it was given and the response it      *)
(* returned.  JavaScript numbers are modelled as exact rationals <<n, d>>.  *)
(*                                                                         *)
(* The users service is the one stateful part: users is the user           *)
(* collection (in insertion order) and calls holds, for every concurrent   *)
(* caller, the position of its UsersService.create call.                   *)
(***************************************************************************)
EXTENDS Integers, Sequences, FiniteSets, TLC

VARIABLES op, request, response, users, calls

vars == <<op, request, response, users, calls>>

engineVars == <<op, request, response>>

usersVars == <<users, calls>>

(***************************************************************************)
(* Exact rational arithmetic: <<n, d>> with d > 0, in lowest terms.         *)
(***************************************************************************)
RECURSIVE GCD(_, _)
GCD(a, b) == IF b = 0 THEN a ELSE GCD(b, a % b)

Abs(x) == IF x < 0 THEN -x ELSE x

Norm(n, d) ==
    LET g == GCD(Abs(n), Abs(d))
        s == IF d < 0 THEN -1 ELSE 1
    IN  <<(s * n) \div g, (s * d) \div g>>

R(n, d) == Norm(n, d)

RInt(i) == <<i, 1>>

RAdd(x, y) == Norm(x[1] * y[2] + y[1] * x[2], x[2] * y[2])

RSub(x, y) == Norm(x[1] * y[2] - y[1] * x[2], x[2] * y[2])

RMul(x, y) == Norm(x[1] * y[1], x[2] * y[2])

\* x / y, for y /= 0
RDiv(x, y) == Norm(x[1] * y[2], x[2] * y[1])

RLe(x, y) == x[1] * y[2] <= y[1] * x[2]

RLt(x, y) == x[1] * y[2] < y[1] * x[2]

RMin(x, y) == IF RLe(x, y) THEN x ELSE y

RMax(x, y) == IF RLe(x, y) THEN y ELSE x

(***************************************************************************)
(* Skill levels.                                                           *)
(***************************************************************************)
Levels == {"LOW", "MEDIUM", "HIGH", "EXPERT"}

levelMap == [l \in Levels |->
                CASE l = "LOW" -> 1 [] l = "MEDIUM" -> 2
                  [] l = "HIGH" -> 3 [] l = "EXPERT" -> 4]

(***************************************************************************)
(* Level match: full credit at or above the required level, partial       *)
(* credit (ratio * 0.7) below it.                                          *)
(***************************************************************************)
calculateLevelMatch_strict(employeeLevel, requiredLevel) ==
    LET empLevel == levelMap[employeeLevel]
        reqLevel == levelMap[requiredLevel]
    IN  IF empLevel > reqLevel
        THEN RInt(1)
        ELSE RMul(R(empLevel, reqLevel), R(7, 10))

calculateLevelMatch(employeeLevel, requiredLevel) ==
    LET empLevel == levelMap[employeeLevel]
        reqLevel == levelMap[requiredLevel]
    IN  IF empLevel >= reqLevel
        THEN RInt(1)
        ELSE RMul(R(empLevel, reqLevel), R(7, 10))

(***************************************************************************)
(* Skill match: weighted average of the level matches over the required    *)
(* skills.  The loop adds every requirement's weight to totalWeight before *)
(* it looks the skill up; a missing mandatory skill returns 0 at once, a   *)
(* missing optional skill is skipped.                                      *)
(***************************************************************************)
findSkill(employeeSkills, skillId) ==
    {s \in employeeSkills : s.skillId = skillId}

RECURSIVE skillMatchLoop(_, _, _, _, _)
skillMatchLoop(employeeSkills, requiredSkills, i, totalWeight, weightedScore) ==
    IF i > Len(requiredSkills)
    THEN IF RLt(RInt(0), totalWeight)
         THEN RMul(RDiv(weightedScore, totalWeight), RInt(100))
         ELSE RInt(0)
    ELSE LET required == requiredSkills[i]
             tw == RAdd(totalWeight, required.weight)
             found == findSkill(employeeSkills, required.skillId)
         IN  IF found = {}
             THEN IF required.isMandatory
                  THEN RInt(0)
                  ELSE skillMatchLoop(employeeSkills, requiredSkills, i + 1,
                                      tw, weightedScore)
             ELSE LET employeeSkill == CHOOSE s \in found : TRUE
                      levelScore == calculateLevelMatch(employeeSkill.level,
                                                        required.requiredLevel)
                  IN  skillMatchLoop(employeeSkills, requiredSkills, i + 1, tw,
                          RAdd(weightedScore, RMul(levelScore, required.weight)))

\* the loop with totalWeight counting only the skills the employee holds
RECURSIVE skillMatchLoop_heldOnly(_, _, _, _, _)
skillMatchLoop_heldOnly(employeeSkills, requiredSkills, i, totalWeight, weightedScore) ==
    IF i > Len(requiredSkills)
    THEN IF RLt(RInt(0), totalWeight)
         THEN RMul(RDiv(weightedScore, totalWeight), RInt(100))
         ELSE RInt(0)
    ELSE LET required == requiredSkills[i]
             found == findSkill(employeeSkills, required.skillId)
         IN  IF found = {}
             THEN IF required.isMandatory
                  THEN RInt(0)
                  ELSE skillMatchLoop_heldOnly(employeeSkills, requiredSkills,
                                               i + 1, totalWeight,
                                               weightedScore)
             ELSE LET employeeSkill == CHOOSE s \in found : TRUE
                      levelScore == calculateLevelMatch(employeeSkill.level,
                                                        required.requiredLevel)
                  IN  skillMatchLoop_heldOnly(employeeSkills, requiredSkills,
                          i + 1, RAdd(totalWeight, required.weight),
                          RAdd(weightedScore, RMul(levelScore, required.weight)))

calculateSkillMatch_heldOnly(employeeSkills, requiredSkills) ==
    skillMatchLoop_heldOnly(employeeSkills, requiredSkills, 1, RInt(0), RInt(0))

calculateSkillMatch(employeeSkills, requiredSkills) ==
    skillMatchLoop(employeeSkills, requiredSkills, 1, RInt(0), RInt(0))

(***************************************************************************)
(* Experience: up to 50 points for total years, up to 50 more for years of *)
(* experience in activities of the same type.                              *)
(***************************************************************************)
RECURSIVE calculateRelevantExperience(_, _)
calculateRelevantExperience(history, activityType) ==
    IF history = <<>>
    THEN 0
    ELSE (IF Head(history).type = activityType THEN Head(history).years ELSE 0)
         + calculateRelevantExperience(Tail(history), activityType)

IntMin(a, b) == IF a <= b THEN a ELSE b

calculateExperienceScore_uncapped(employee, activityType) ==
    LET totalExperience == employee.yearsOfExperience
        relevantExperience ==
            calculateRelevantExperience(employee.history, activityType)
        baseScore == IntMin(totalExperience * 5, 50)
        relevantBonus == relevantExperience * 10
    IN  RInt(baseScore + relevantBonus)

calculateExperienceScore(employee, activityType) ==
    LET totalExperience == employee.yearsOfExperience
        relevantExperience ==
            calculateRelevantExperience(employee.history, activityType)
        baseScore == IntMin(totalExperience * 5, 50)
        relevantBonus == IntMin(relevantExperience * 10, 50)
    IN  RInt(IntMin(baseScore + relevantBonus, 100))

(***************************************************************************)
(* Progression potential: 50 without history, else 50 + 2 * the average    *)
(* improvement over the last five evolutions, clamped to 0..100.           *)
(***************************************************************************)
sliceLast(seq, n) ==
    IF Len(seq) <= n THEN seq ELSE SubSeq(seq, Len(seq) - n + 1, Len(seq))

RECURSIVE sumImprovement(_)
sumImprovement(evolutions) ==
    IF evolutions = <<>>
    THEN 0
    ELSE (Head(evolutions).newScore - Head(evolutions).previousScore)
         + sumImprovement(Tail(evolutions))

calculateProgressionPotential_wholeHistory(skillEvolution) ==
    IF Len(skillEvolution) = 0
    THEN RInt(50)
    ELSE LET totalImprovement == sumImprovement(skillEvolution)
             avgImprovement == R(totalImprovement, Len(skillEvolution))
         IN  RMin(RMax(RAdd(RInt(50), RMul(avgImprovement, RInt(2))), RInt(0)),
                  RInt(100))

calculateProgressionPotential(skillEvolution) ==
    IF Len(skillEvolution) = 0
    THEN RInt(50)
    ELSE LET recentEvolutions == sliceLast(skillEvolution, 5)
             totalImprovement == sumImprovement(recentEvolutions)
             avgImprovement == R(totalImprovement, Len(recentEvolutions))
         IN  RMin(RMax(RAdd(RInt(50), RMul(avgImprovement, RInt(2))), RInt(0)),
                  RInt(100))

(***************************************************************************)
(* Contextual fit: by the distance between the activity's target level and *)
(* the employee's level.                                                   *)
(***************************************************************************)
calculateContextualFit_shifted(targetLevel, employeeLevel) ==
    LET target == levelMap[targetLevel]
        employee == levelMap[employeeLevel]
    IN  IF Abs(target - employee) <= 1 THEN RInt(100)
        ELSE IF Abs(target - employee) = 2 THEN RInt(80)
        ELSE RInt(50)

calculateContextualFit_signed(targetLevel, employeeLevel) ==
    LET target == levelMap[targetLevel]
        employee == levelMap[employeeLevel]
    IN  IF target = employee THEN RInt(100)
        ELSE IF target - employee = 1 THEN RInt(80)
        ELSE IF target - employee = 2 THEN RInt(50)
        ELSE RInt(20)

calculateContextualFit(targetLevel, employeeLevel) ==
    LET target == levelMap[targetLevel]
        employee == levelMap[employeeLevel]
    IN  IF target = employee THEN RInt(100)
        ELSE IF Abs(target - employee) = 1 THEN RInt(80)
        ELSE IF Abs(target - employee) = 2 THEN RInt(50)
        ELSE RInt(20)

(***************************************************************************)
(* Composite score.  The four weights are those of the request (skillMatch,*)
(* experience, progression, context); the request's defaults are the       *)
(* constants 0.5 / 0.2 / 0.15 / 0.15 of the scoring algorithm.             *)
(***************************************************************************)
DefaultWeights ==
    [skillMatch |-> R(1, 2), experience |-> R(1, 5),
     progression |-> R(3, 20), context |-> R(3, 20)]

calculateEmployeeScore(employee, activity, weights) ==
    LET skillScore ==
            calculateSkillMatch(employee.skills, activity.requiredSkills)
        experienceScore ==
            calculateExperienceScore(employee.experience, activity.type)
        progressionScore ==
            calculateProgressionPotential(employee.skillEvolution)
        contextScore ==
            calculateContextualFit(activity.targetLevel, employee.level)
        finalScore ==
            RAdd(RAdd(RMul(skillScore, weights.skillMatch),
                      RMul(experienceScore, weights.experience)),
                 RAdd(RMul(progressionScore, weights.progression),
                      RMul(contextScore, weights.context)))
    IN  [totalScore |-> finalScore,
         breakdown |-> [skillScore |-> skillScore,
                        experienceScore |-> experienceScore,
                        progressionScore |-> progressionScore,
                        contextScore |-> contextScore]]

(***************************************************************************)
(* Weight validation (spec section 7): every weight in [0,1] and the       *)
(* weights summing to 1 within epsilon; otherwise the whole calculation    *)
(* fails with ValidationError.                                             *)
(***************************************************************************)
WeightEpsilon == R(1, 1000000)

weightSum(weights) ==
    RAdd(RAdd(weights.skillMatch, weights.experience),
         RAdd(weights.progression, weights.context))

validWeights_sumOnly(weights) ==
    /\ RLe(RSub(RInt(1), WeightEpsilon), weightSum(weights))
    /\ RLe(weightSum(weights), RAdd(RInt(1), WeightEpsilon))

validWeights(weights) ==
    /\ \A k \in {"skillMatch", "experience", "progression", "context"} :
          RLe(RInt(0), weights[k]) /\ RLe(weights[k], RInt(1))
    /\ RLe(RSub(RInt(1), WeightEpsilon), weightSum(weights))
    /\ RLe(weightSum(weights), RAdd(RInt(1), WeightEpsilon))

calculateScore(employee, activity, weights) ==
    IF ~validWeights(weights)
    THEN [error |-> "ValidationError"]
    ELSE calculateEmployeeScore(employee, activity, weights)

(***************************************************************************)
(* Batch scoring (spec section 7): a record that lacks a field the score   *)
(* calculation reads is malformed; it is reported with an error annotation *)
(* and the other records of the batch are scored as usual.                 *)
(***************************************************************************)
ProfileFields == {"id", "skills", "experience", "skillEvolution", "level"}

isMalformed(employee) == ~(ProfileFields \subseteq DOMAIN employee)

scoreCandidate(employee, activity, weights) ==
    IF isMalformed(employee)
    THEN [employeeId |-> employee.id, error |-> "MALFORMED_RECORD"]
    ELSE LET score == calculateEmployeeScore(employee, activity, weights)
         IN  [employeeId |-> employee.id,
              totalScore |-> score.totalScore,
              breakdown |-> score.breakdown,
              eligible |->
                 \A i \in DOMAIN activity.requiredSkills :
                    activity.requiredSkills[i].isMandatory =>
                       findSkill(employee.skills,
                                 activity.requiredSkills[i].skillId) /= {}]

scoreBatch_aborting(employees, activity, weights) ==
    IF ~validWeights(weights)
    THEN [error |-> "ValidationError"]
    ELSE IF \E i \in DOMAIN employees : isMalformed(employees[i])
    THEN [error |-> "TypeError"]
    ELSE [results |-> [i \in DOMAIN employees |->
                          scoreCandidate(employees[i], activity, weights)]]

scoreBatch(employees, activity, weights) ==
    IF ~validWeights(weights)
    THEN [error |-> "ValidationError"]
    ELSE [results |-> [i \in DOMAIN employees |->
                          scoreCandidate(employees[i], activity, weights)]]

(***************************************************************************)
(* Array.prototype.sort with a comparator: a stable sort (elements the     *)
(* comparator does not separate keep their input order).  The comparators  *)
(* of the engine: "score", (a, b) => b.score - a.score, and "ties", the    *)
(* comparator of breakTies.                                                *)
(***************************************************************************)
Sign(x) == IF x < 0 THEN -1 ELSE IF x > 0 THEN 1 ELSE 0

compareScore(a, b) == Sign(RSub(b.score, a.score)[1])

compareTies(a, b) ==
    IF a.progressionScore /= b.progressionScore
    THEN Sign(RSub(b.progressionScore, a.progressionScore)[1])
    ELSE IF a.availabilityScore /= b.availabilityScore
    THEN Sign(RSub(b.availabilityScore, a.availabilityScore)[1])
    ELSE Sign(a.lastActivityDate - b.lastActivityDate)

compare(comparator, a, b) ==
    IF comparator = "score" THEN compareScore(a, b) ELSE compareTies(a, b)

\* x goes after every element it does not strictly precede
RECURSIVE insertSorted(_, _, _)
insertSorted(comparator, sorted, x) ==
    IF sorted = <<>>
    THEN <<x>>
    ELSE IF compare(comparator, x, Head(sorted)) < 0
         THEN <<x>> \o sorted
         ELSE <<Head(sorted)>> \o insertSorted(comparator, Tail(sorted), x)

RECURSIVE sortFrom(_, _, _)
sortFrom(comparator, sorted, rest) ==
    IF rest = <<>>
    THEN sorted
    ELSE sortFrom(comparator, insertSorted(comparator, sorted, Head(rest)),
                  Tail(rest))

sort(comparator, array) == sortFrom(comparator, <<>>, array)

(***************************************************************************)
(* Tie-breaking: by progression score (higher first), then availability    *)
(* score (higher first), then last activity date (older first).            *)
(***************************************************************************)
breakTies(candidates) == sort("ties", candidates)

(***************************************************************************)
(* Multi-objective optimisation.  An objective is the name of one of the   *)
(* employee's objective values; scores is the vector of them.  A vector is *)
(* dominated by the front when some member of the front is at least as     *)
(* good on every objective and better on one.                              *)
(***************************************************************************)
objectiveScores(employee, activity, objectives) ==
    [k \in 1..Len(objectives) |-> employee.objectiveValues[objectives[k]]]

dominates(a, b) ==
    /\ \A k \in DOMAIN a : a[k] >= b[k]
    /\ \E k \in DOMAIN a : a[k] > b[k]

isDominated(scores, paretoFront) ==
    \E i \in 1..Len(paretoFront) : dominates(paretoFront[i].scores, scores)

RECURSIVE paretoLoop(_, _, _, _, _)
paretoLoop(employees, activity, objectives, i, paretoFront) ==
    IF i > Len(employees)
    THEN paretoFront
    ELSE LET employee == employees[i]
             scores == objectiveScores(employee, activity, objectives)
         IN  IF isDominated(scores, paretoFront)
             THEN paretoLoop(employees, activity, objectives, i + 1,
                             paretoFront)
             ELSE paretoLoop(employees, activity, objectives, i + 1,
                     Append(paretoFront,
                            [employee |-> employee, scores |-> scores]))

multiObjectiveOptimize(employees, activity, objectives) ==
    paretoLoop(employees, activity, objectives, 1, <<>>)

(***************************************************************************)
(* Constraints.                                                            *)
(***************************************************************************)
SeatConstraint_validate(selection, activity) ==
    Len(selection) <= activity.availableSeats

\* candidates.slice(0, activity.availableSeats)
SeatConstraint_apply(candidates, activity) ==
    SubSeq(candidates, 1, IntMin(Len(candidates), activity.availableSeats))

\* only the committed activities that lie within the activity's dates
checkScheduleConflicts_containedOnly(employee, activity) ==
    SelectSeq(employee.schedule,
              LAMBDA c : activity.startDate <= c.startDate
                         /\ c.endDate <= activity.endDate)

\* the committed activities of the employee whose dates overlap the activity's
checkScheduleConflicts(employee, activity) ==
    SelectSeq(employee.schedule,
              LAMBDA c : c.startDate <= activity.endDate
                         /\ activity.startDate <= c.endDate)

AvailabilityConstraint_validate(employee, activity) ==
    LET conflicts == checkScheduleConflicts(employee, activity)
    IN  Len(conflicts) = 0

\* SkillLevel is a string enum ('LOW', 'MEDIUM', 'HIGH', 'EXPERT') and the
\* constraint compares two levels with <, which on strings is the
\* lexicographic order: EXPERT < HIGH < LOW < MEDIUM.
stringRank == [l \in Levels |->
                  CASE l = "EXPERT" -> 1 [] l = "HIGH" -> 2
                    [] l = "LOW" -> 3 [] l = "MEDIUM" -> 4]

stringLess(a, b) == stringRank[a] < stringRank[b]

mandatorySkills(activity) ==
    SelectSeq(activity.requiredSkills, LAMBDA r : r.isMandatory)

MandatorySkillConstraint_validate(employee, activity) ==
    \A i \in DOMAIN mandatorySkills(activity) :
        LET required == mandatorySkills(activity)[i]
            found == findSkill(employee.skills, required.skillId)
        IN  /\ found /= {}
            /\ ~stringLess((CHOOSE s \in found : TRUE).level,
                           required.requiredLevel)

(***************************************************************************)
(* Strategies.  Each filters the employees that meet the requirements,     *)
(* scores them and sorts by descending score.  The helpers the strategies  *)
(* call are not part of the repository and follow the design notes: an     *)
(* employee meets the requirements when it holds every mandatory skill.    *)
(***************************************************************************)
missingMandatorySkills(employee, activity) ==
    SelectSeq(mandatorySkills(activity),
              LAMBDA r : findSkill(employee.skills, r.skillId) = {})

meetsMinimumRequirements(emp, activity) ==
    Len(missingMandatorySkills(emp, activity)) = 0

meetsRequirements(emp, activity) ==
    Len(missingMandatorySkills(emp, activity)) = 0

\* rewards a moderate gap below the target level
calculateSkillGap(employee, activity) ==
    LET gap == levelMap[activity.targetLevel] - levelMap[employee.level]
    IN  IF gap = 1 THEN 100
        ELSE IF gap = 2 THEN 60
        ELSE IF gap = 0 THEN 30
        ELSE 10

calculateUpskillingScore(employee, activity) ==
    LET gapScore == calculateSkillGap(employee, activity)
        potentialScore == employee.progressionPotential
        motivationScore == employee.recentActivityEngagement
    IN  RAdd(RAdd(RMul(RInt(gapScore), R(2, 5)),
                  RMul(RInt(potentialScore), R(2, 5))),
             RMul(RInt(motivationScore), R(1, 5)))

heldRequiredSkills(employee, requiredSkills) ==
    {s \in employee.skills :
        \E i \in DOMAIN requiredSkills : requiredSkills[i].skillId = s.skillId}

RECURSIVE sumOver(_, _)
sumOver(set, field) ==
    IF set = {}
    THEN 0
    ELSE LET x == CHOOSE y \in set : TRUE
         IN  (IF field = "level" THEN levelMap[x.level] ELSE x.certifications)
             + sumOver(set \ {x}, field)

averageSkillLevel(employee, requiredSkills) ==
    LET held == heldRequiredSkills(employee, requiredSkills)
    IN  IF held = {} THEN RInt(0)
        ELSE R(sumOver(held, "level"), Cardinality(held))

countRelevantCertifications(employee, activity) ==
    sumOver(heldRequiredSkills(employee, activity.requiredSkills),
            "certifications")

calculateExpertiseScore(employee, activity) ==
    LET skillLevel == averageSkillLevel(employee, activity.requiredSkills)
        experience == employee.yearsOfExperience
        certifications == countRelevantCertifications(employee, activity)
    IN  RAdd(RAdd(RMul(skillLevel, R(1, 2)),
                  RMul(RInt(experience), R(3, 10))),
             RMul(RInt(certifications), R(1, 5)))

filterEmployees(employees, activity, strategy) ==
    SelectSeq(employees,
              LAMBDA emp : IF strategy = "UPSKILLING"
                           THEN meetsMinimumRequirements(emp, activity)
                           ELSE meetsRequirements(emp, activity))

UpskillingStrategy_optimize_unsorted(employees, activity) ==
    LET kept == filterEmployees(employees, activity, "UPSKILLING")
    IN  [i \in DOMAIN kept |->
            [employee |-> kept[i],
             score |-> calculateUpskillingScore(kept[i], activity)]]

UpskillingStrategy_optimize(employees, activity) ==
    LET kept == filterEmployees(employees, activity, "UPSKILLING")
    IN  sort("score",
             [i \in DOMAIN kept |->
                 [employee |-> kept[i],
                  score |-> calculateUpskillingScore(kept[i], activity)]])

ExpertiseStrategy_optimize(employees, activity) ==
    LET kept == filterEmployees(employees, activity, "EXPERTISE")
    IN  sort("score",
             [i \in DOMAIN kept |->
                 [employee |-> kept[i],
                  score |-> calculateExpertiseScore(kept[i], activity)]])

\* the least integer at or above the rational x
Ceiling(x) == (x[1] + x[2] - 1) \div x[2]

\* the top fraction (rounded up) of the Expertise ranking
selectExperts(employees, activity, fraction) ==
    LET ranked == ExpertiseStrategy_optimize(employees, activity)
        count == Ceiling(RMul(fraction, RInt(Len(ranked))))
    IN  SubSeq(ranked, 1, count)

\* the top fraction (rounded up) of the Upskilling ranking
selectDevelopers_overlapping(employees, activity, fraction) ==
    LET ranked == UpskillingStrategy_optimize(employees, activity)
        count == Ceiling(RMul(fraction, RInt(Len(ranked))))
    IN  SubSeq(ranked, 1, count)

\* the Upskilling ranking of the employees that are not among the experts
selectDevelopers(employees, activity, fraction) ==
    LET experts == selectExperts(employees, activity, RSub(RInt(1), fraction))
        expertIds == {experts[i].employee.id : i \in DOMAIN experts}
        rest == SelectSeq(employees, LAMBDA emp : emp.id \notin expertIds)
    IN  UpskillingStrategy_optimize(rest, activity)

BalancedStrategy_optimize(employees, activity) ==
    LET experts == selectExperts(employees, activity, R(3, 10))
        developers == selectDevelopers(employees, activity, R(7, 10))
    IN  experts \o developers

SetMin(S) == CHOOSE x \in S : \A y \in S : x <= y

calculateSkillDiversity(employee, currentSelection) ==
    LET mine == {s.skillId : s \in employee.skills}
        theirs == UNION {{s.skillId : s \in currentSelection[i].skills} :
                            i \in DOMAIN currentSelection}
    IN  IF mine = {} THEN RInt(0)
        ELSE R(100 * Cardinality(mine \ theirs), Cardinality(mine))

calculateDepartmentDiversity(employee, currentSelection) ==
    IF \E i \in DOMAIN currentSelection :
          currentSelection[i].department = employee.department
    THEN RInt(0)
    ELSE RInt(100)

calculateExperienceDiversity(employee, currentSelection) ==
    IF currentSelection = <<>>
    THEN RInt(100)
    ELSE RInt(IntMin(100,
             10 * SetMin({Abs(employee.yearsOfExperience
                              - currentSelection[i].yearsOfExperience) :
                            i \in DOMAIN currentSelection})))

calculateDiversityScore(employee, activity, currentSelection) ==
    LET skillDiversity == calculateSkillDiversity(employee, currentSelection)
        departmentDiversity ==
            calculateDepartmentDiversity(employee, currentSelection)
        experienceDiversity ==
            calculateExperienceDiversity(employee, currentSelection)
    IN  RAdd(RAdd(RMul(skillDiversity, R(2, 5)),
                  RMul(departmentDiversity, R(3, 10))),
             RMul(experienceDiversity, R(3, 10)))

\* currentSelection is not a parameter of optimize in the source and nothing
\* in optimize changes it: every candidate is scored against the same
\* selection, in one pass.
DiversityStrategy_optimize(employees, activity, currentSelection) ==
    LET kept == filterEmployees(employees, activity, "DIVERSITY")
    IN  sort("score",
             [i \in DOMAIN kept |->
                 [employee |-> kept[i],
                  score |-> calculateDiversityScore(kept[i], activity,
                                                    currentSelection)]])

(***************************************************************************)
(* Strategy dispatch: the four strategies of the request format; any other *)
(* name fails with ConfigurationError.                                     *)
(***************************************************************************)
Strategies == {"UPSKILLING", "EXPERTISE", "BALANCED", "DIVERSITY"}

optimize_defaulting(employees, activity, strategy, params) ==
    IF strategy = "UPSKILLING"
    THEN [result |-> UpskillingStrategy_optimize(employees, activity)]
    ELSE IF strategy = "EXPERTISE"
    THEN [result |-> ExpertiseStrategy_optimize(employees, activity)]
    ELSE IF strategy = "DIVERSITY"
    THEN [result |-> DiversityStrategy_optimize(employees, activity,
                                                params.currentSelection)]
    ELSE [result |-> BalancedStrategy_optimize(employees, activity)]

optimize(employees, activity, strategy, params) ==
    IF strategy = "UPSKILLING"
    THEN [result |-> UpskillingStrategy_optimize(employees, activity)]
    ELSE IF strategy = "EXPERTISE"
    THEN [result |-> ExpertiseStrategy_optimize(employees, activity)]
    ELSE IF strategy = "BALANCED"
    THEN [result |-> BalancedStrategy_optimize(employees, activity)]
    ELSE IF strategy = "DIVERSITY"
    THEN [result |-> DiversityStrategy_optimize(employees, activity,
                                                params.currentSelection)]
    ELSE [error |-> "ConfigurationError"]

(***************************************************************************)
(* Recommendation assembly (spec section 4.6): score every employee, record *)
(* the constraint violations, order the eligible candidates by the         *)
(* strategy, break ties among equal strategy scores, cut at the seats, and *)
(* report every candidate: the ranked eligible ones first, then the        *)
(* ineligible ones flagged eligible = FALSE with their violations.         *)
(***************************************************************************)
violationsOf(employee, activity, constraints) ==
    LET missing == missingMandatorySkills(employee, activity)
    IN  (IF Len(missing) > 0
         THEN <<[code |-> "MISSING_MANDATORY_SKILL",
                 skillId |-> missing[1].skillId]>>
         ELSE <<>>)
        \o (IF constraints.mandatorySkills
               /\ ~MandatorySkillConstraint_validate(employee, activity)
            THEN <<[code |-> "MANDATORY_SKILL_CONSTRAINT"]>>
            ELSE <<>>)
        \o (IF constraints.checkAvailability
               /\ ~AvailabilityConstraint_validate(employee, activity)
            THEN <<[code |-> "AVAILABILITY_CONSTRAINT"]>>
            ELSE <<>>)

reasoningOf(violations) ==
    [i \in DOMAIN violations |->
        IF violations[i].code = "MISSING_MANDATORY_SKILL"
        THEN [text |-> "disqualified: missing mandatory skill",
              skillId |-> violations[i].skillId]
        ELSE [text |-> "disqualified: constraint violated",
              code |-> violations[i].code]]

buildCandidate(employee, activity, constraints, weights) ==
    LET score == calculateEmployeeScore(employee, activity, weights)
        violations == violationsOf(employee, activity, constraints)
    IN  [employeeId |-> employee.id,
         totalScore |-> score.totalScore,
         breakdown |-> score.breakdown,
         rank |-> 0,
         reasoning |-> reasoningOf(violations),
         eligible |-> violations = <<>>,
         violations |-> violations]

\* what the tie-breaker compares, for one entry of the strategy's ordering
tieCandidate(entry, activity) ==
    [id |-> entry.employee.id,
     score |-> entry.score,
     progressionScore |->
        calculateProgressionPotential(entry.employee.skillEvolution),
     availabilityScore |->
        IF AvailabilityConstraint_validate(entry.employee, activity)
        THEN RInt(1) ELSE RInt(0),
     lastActivityDate |-> entry.employee.lastActivityDate,
     department |-> entry.employee.department]

\* the length of the longest prefix of ordered whose scores equal the first's
RECURSIVE tiedPrefix(_, _)
tiedPrefix(ordered, n) ==
    IF n < Len(ordered) /\ ordered[n + 1].score = ordered[1].score
    THEN tiedPrefix(ordered, n + 1)
    ELSE n

RECURSIVE breakTiesInGroups(_)
breakTiesInGroups(ordered) ==
    IF ordered = <<>>
    THEN <<>>
    ELSE LET n == tiedPrefix(ordered, 1)
         IN  breakTies(SubSeq(ordered, 1, n))
             \o breakTiesInGroups(SubSeq(ordered, n + 1, Len(ordered)))

\* Soft constraint (spec section 4.2): walking down the ranking, a candidate
\* whose department already has departmentLimit candidates kept ahead of it
\* is over the cap; the candidates over the cap are moved, in order, behind
\* the others and stay in the ranking.
RECURSIVE departmentSplit(_, _, _, _)
departmentSplit(ranked, limit, kept, lowered) ==
    IF ranked = <<>>
    THEN [kept |-> kept, lowered |-> lowered]
    ELSE LET c == Head(ranked)
             ahead == Len(SelectSeq(kept,
                          LAMBDA k : k.department = c.department))
         IN  IF ahead >= limit
             THEN departmentSplit(Tail(ranked), limit, kept,
                                  Append(lowered, c))
             ELSE departmentSplit(Tail(ranked), limit, Append(kept, c),
                                  lowered)

applyDepartmentLimit_excluding(ranked, constraints) ==
    IF "departmentLimit" \notin DOMAIN constraints
    THEN ranked
    ELSE departmentSplit(ranked, constraints.departmentLimit, <<>>, <<>>).kept

applyDepartmentLimit(ranked, constraints) ==
    IF "departmentLimit" \notin DOMAIN constraints
    THEN ranked
    ELSE LET split == departmentSplit(ranked, constraints.departmentLimit,
                                      <<>>, <<>>)
         IN  split.kept \o split.lowered

candidateOf(candidates, employeeId) ==
    CHOOSE c \in {candidates[i] : i \in DOMAIN candidates} :
        c.employeeId = employeeId

fullResults_eligibleOnly(rankedResults, candidates) == rankedResults

fullResults(rankedResults, candidates) ==
    rankedResults \o SelectSeq(candidates, LAMBDA c : ~c.eligible)

assemble(candidates, ranked, selected) ==
    LET rankedResults ==
            [i \in DOMAIN ranked |->
                [candidateOf(candidates, ranked[i].id) EXCEPT !.rank = i]]
    IN  [results |-> fullResults(rankedResults, candidates),
         recommendations |-> SubSeq(rankedResults, 1, Len(selected)),
         alternativeRecommendations |->
            SubSeq(rankedResults, Len(selected) + 1, Len(rankedResults)),
         statistics |-> [totalCandidates |-> Len(candidates),
                         qualified |-> Len(ranked),
                         recommended |-> Len(selected)]]

recommend(employees, activity, strategy, constraints, weights) ==
    IF ~validWeights(weights)
    THEN [error |-> "ValidationError"]
    ELSE LET candidates ==
                 [i \in DOMAIN employees |->
                     buildCandidate(employees[i], activity, constraints,
                                    weights)]
             eligible ==
                 SelectSeq(employees,
                     LAMBDA emp :
                         violationsOf(emp, activity, constraints) = <<>>)
             ordered == optimize(eligible, activity, strategy,
                                 [currentSelection |-> <<>>])
         IN  IF "error" \in DOMAIN ordered
             THEN ordered
             ELSE LET entries ==
                          [i \in DOMAIN ordered.result |->
                              tieCandidate(ordered.result[i], activity)]
                      ranked == applyDepartmentLimit(
                                    breakTiesInGroups(entries), constraints)
                      selected == SeatConstraint_apply(ranked, activity)
                  IN  assemble(candidates, ranked, selected)

(***************************************************************************)
(* Ranking of scored candidates (spec sections 4.4 and 5): the scored      *)
(* entries, in the order in which they were merged, are sorted by          *)
(* descending total score and the groups of equal score go through         *)
(* breakTies.                                                              *)
(***************************************************************************)
scoreEntry(employee, activity, weights) ==
    [employee |-> employee,
     score |-> calculateEmployeeScore(employee, activity, weights).totalScore]

rankScored(merged, activity) ==
    LET ordered == sort("score", merged)
        ranked == breakTiesInGroups([i \in DOMAIN ordered |->
                                        tieCandidate(ordered[i], activity)])
    IN  [i \in DOMAIN ranked |-> [employeeId |-> ranked[i].id,
                                  totalScore |-> ranked[i].score,
                                  rank |-> i]]

rankSequentially(employees, activity, weights) ==
    rankScored([i \in DOMAIN employees |->
                   scoreEntry(employees[i], activity, weights)], activity)

(***************************************************************************)
(* Inputs of the scoring operations.                                       *)
(***************************************************************************)
Requirement(skillId, requiredLevel, weight, isMandatory) ==
    [skillId |-> skillId, requiredLevel |-> requiredLevel,
     weight |-> weight, isMandatory |-> isMandatory]

RequiredSkillLists ==
    {<<>>}
    \cup {<<Requirement("B", "MEDIUM", RInt(0), FALSE)>>}
    \cup {<<Requirement("A", l, R(3, 5), m)>> :
            l \in {"HIGH", "EXPERT"}, m \in BOOLEAN}
    \cup {<<Requirement("A", l, R(3, 5), m),
            Requirement("B", "MEDIUM", R(2, 5), n)>> :
            l \in {"HIGH", "EXPERT"}, m \in BOOLEAN, n \in BOOLEAN}

Activity(requiredSkills, targetLevel, availableSeats, filledSeats) ==
    [id |-> "act", type |-> "TRAINING", requiredSkills |-> requiredSkills,
     targetLevel |-> targetLevel, availableSeats |-> availableSeats,
     filledSeats |-> filledSeats, startDate |-> 10, endDate |-> 20]

ScoreActivities ==
    {Activity(rs, t, 2, 0) : rs \in RequiredSkillLists, t \in {"LOW", "HIGH"}}

SkillRecord(skillId, level) == [skillId |-> skillId, level |-> level]

SkillSets ==
    {a \cup b :
        a \in {{}} \cup {{SkillRecord("A", l)} : l \in {"LOW", "HIGH", "EXPERT"}},
        b \in {{}} \cup {{SkillRecord("B", l)} : l \in {"LOW", "MEDIUM"}}}

Evolution(previousScore, newScore) ==
    [previousScore |-> previousScore, newScore |-> newScore]

\* none; one gain of 10; one gain of 80; an old gain of 100 followed by five
\* losses of 40
SkillEvolutions ==
    {<<>>,
     <<Evolution(40, 50)>>,
     <<Evolution(10, 90)>>,
     <<Evolution(0, 100), Evolution(60, 20), Evolution(60, 20),
       Evolution(60, 20), Evolution(60, 20), Evolution(60, 20)>>}

\* histories of at most MaxEvolutions evolutions: a loss of 40, a gain of 10
\* or a gain of 80 each
MaxEvolutions == 6

EvolutionChoices == {Evolution(60, 20), Evolution(40, 50), Evolution(10, 90)}

EvolutionHistories ==
    UNION {[1..n -> EvolutionChoices] : n \in 0..MaxEvolutions}

Histories ==
    {<<>>,
     <<[type |-> "TRAINING", years |-> 6], [type |-> "MISSION", years |-> 3]>>}

YearsChoices == {0, 5, 12}

ScoreEmployees ==
    {[id |-> "emp", skills |-> sk,
      experience |-> [yearsOfExperience |-> y, history |-> h],
      skillEvolution |-> ev, level |-> l] :
        sk \in SkillSets, y \in YearsChoices, h \in Histories,
        ev \in SkillEvolutions, l \in Levels}

Weights(skillMatch, experience, progression, context) ==
    [skillMatch |-> skillMatch, experience |-> experience,
     progression |-> progression, context |-> context]

\* three valid configurations, then: sum 2, a weight outside [0,1] with sum 1,
\* sum 0.95
WeightConfigurations ==
    {DefaultWeights,
     Weights(R(1, 4), R(1, 4), R(1, 4), R(1, 4)),
     Weights(RInt(0), RInt(0), RInt(0), RInt(1)),
     Weights(R(1, 2), R(1, 2), R(1, 2), R(1, 2)),
     Weights(R(3, 2), R(-1, 2), RInt(0), RInt(0)),
     Weights(R(1, 2), R(1, 5), R(3, 20), R(1, 10))}

(***************************************************************************)
(* Inputs of the list operations: lists of at most MaxCandidates           *)
(* candidates with distinct ids.                                           *)
(***************************************************************************)
MaxCandidates == 3

IdPool == {"c1", "c2", "c3", "c4"}

IdLists ==
    {ids \in UNION {[1..n -> IdPool] : n \in 0..MaxCandidates} :
        \A i, j \in DOMAIN ids : i /= j => ids[i] /= ids[j]}

TieProfile(total, progression, context, availability, lastActivityDate) ==
    [totalScore |-> total, progressionScore |-> progression,
     contextScore |-> context, availabilityScore |-> availability,
     lastActivityDate |-> lastActivityDate]

\* a base profile, and one profile differing from it in each single field
TieProfiles ==
    {TieProfile(RInt(70), RInt(50), RInt(80), RInt(1), 5),
     TieProfile(RInt(70), RInt(60), RInt(80), RInt(1), 5),
     TieProfile(RInt(70), RInt(50), RInt(100), RInt(1), 5),
     TieProfile(RInt(70), RInt(50), RInt(80), RInt(0), 5),
     TieProfile(RInt(70), RInt(50), RInt(80), RInt(1), 3),
     TieProfile(RInt(80), RInt(50), RInt(80), RInt(1), 5)}

TieCandidate(id, profile) ==
    [id |-> id, totalScore |-> profile.totalScore,
     progressionScore |-> profile.progressionScore,
     contextScore |-> profile.contextScore,
     availabilityScore |-> profile.availabilityScore,
     lastActivityDate |-> profile.lastActivityDate]

IdOrderOf(i) == <<"c1", "c2", "c3", "c4", "c5">>[i]

Objectives == {"o1", "o2"}

ObjectiveLists == {<<"o1", "o2">>, <<"o2">>}

ObjectiveVectors == [Objectives -> {1, 2}]

(***************************************************************************)
(* Inputs of the pipeline: lists of distinct employees of a roster.        *)
(***************************************************************************)
CertifiedSkill(skillId, level, certifications) ==
    [skillId |-> skillId, level |-> level, certifications |-> certifications]

Employee(id, dept, skills, years, level, evol, pot, eng, last, schedule) ==
    [id |-> id, department |-> dept, skills |-> skills,
     yearsOfExperience |-> years,
     experience |-> [yearsOfExperience |-> years, history |-> <<>>],
     level |-> level, skillEvolution |-> evol,
     progressionPotential |-> pot,
     recentActivityEngagement |-> eng,
     lastActivityDate |-> last, schedule |-> schedule]

\* e1: an expert; e2: holds the skills below the required levels and is
\* committed after the activity; e3: lacks skill A; e4: scores like e1 but is
\* committed during the activity
Roster ==
    {Employee("e1", "IT",
              {CertifiedSkill("A", "EXPERT", 2), CertifiedSkill("B", "MEDIUM", 0)},
              12, "EXPERT", <<>>, 40, 30, 7, <<>>),
     Employee("e2", "IT",
              {CertifiedSkill("A", "MEDIUM", 0), CertifiedSkill("B", "LOW", 0)},
              5, "MEDIUM", <<Evolution(40, 50)>>, 90, 80, 3,
              <<[startDate |-> 21, endDate |-> 30]>>),
     Employee("e3", "HR",
              {CertifiedSkill("B", "MEDIUM", 1)},
              5, "LOW", <<>>, 60, 50, 5, <<>>),
     Employee("e4", "HR",
              {CertifiedSkill("A", "EXPERT", 2), CertifiedSkill("B", "MEDIUM", 0)},
              12, "EXPERT", <<>>, 40, 30, 7,
              <<[startDate |-> 15, endDate |-> 25]>>)}

EmployeeLists ==
    {list \in UNION {[1..n -> Roster] : n \in 0..MaxCandidates} :
        \A i, j \in DOMAIN list : i /= j => list[i].id /= list[j].id}

\* seats as (availableSeats, filledSeats) with 0 <= filledSeats <= availableSeats
SeatChoices == {<<0, 0>>, <<1, 0>>, <<2, 0>>, <<2, 1>>, <<2, 2>>, <<3, 1>>}

PipelineRequirements ==
    {<<Requirement("A", "HIGH", R(3, 5), TRUE),
       Requirement("B", "MEDIUM", R(2, 5), FALSE)>>,
     <<Requirement("A", "HIGH", R(3, 5), FALSE)>>}

PipelineActivities ==
    {Activity(rs, "HIGH", seats[1], seats[2]) :
        rs \in PipelineRequirements, seats \in SeatChoices}

\* two records without skills (one also without its experience)
MalformedRecords ==
    {[id |-> "m1", department |-> "IT", level |-> "LOW",
      experience |-> [yearsOfExperience |-> 5, history |-> <<>>],
      skillEvolution |-> <<>>],
     [id |-> "m2", department |-> "HR", level |-> "EXPERT",
      skillEvolution |-> <<>>]}

BatchLists ==
    {list \in UNION {[1..n -> Roster \cup MalformedRecords] :
                        n \in 0..MaxCandidates} :
        \A i, j \in DOMAIN list : i /= j => list[i].id /= list[j].id}

BatchActivities ==
    {Activity(rs, t, 2, 0) : rs \in PipelineRequirements, t \in {"LOW", "HIGH"}}

\* s1 and s2 have the same profile; s3 scores lower
ShardRoster ==
    {Employee("s1", "IT",
              {CertifiedSkill("A", "EXPERT", 2), CertifiedSkill("B", "MEDIUM", 0)},
              12, "EXPERT", <<>>, 40, 30, 7, <<>>),
     Employee("s2", "IT",
              {CertifiedSkill("A", "EXPERT", 2), CertifiedSkill("B", "MEDIUM", 0)},
              12, "EXPERT", <<>>, 40, 30, 7, <<>>),
     Employee("s3", "HR",
              {CertifiedSkill("A", "MEDIUM", 0), CertifiedSkill("B", "LOW", 0)},
              5, "MEDIUM", <<Evolution(40, 50)>>, 90, 80, 3, <<>>)}

ShardLists ==
    {list \in UNION {[1..n -> ShardRoster] : n \in 0..MaxCandidates} :
        \A i, j \in DOMAIN list : i /= j => list[i].id /= list[j].id}

Workers == {"w1", "w2"}

StrategyNames == Strategies \cup {"RANDOM"}

\* without a department limit, and with a limit of one per department
ConstraintConfigurations ==
    [mandatorySkills : BOOLEAN, checkAvailability : BOOLEAN]
    \cup [mandatorySkills : BOOLEAN, checkAvailability : BOOLEAN,
          departmentLimit : {1}]

CurrentSelections ==
    {<<>>} \cup {<<e>> : e \in {x \in Roster : x.id = "e1"}}

(***************************************************************************)
(* The state machine: one call per behaviour.                              *)
(***************************************************************************)
(***************************************************************************)
(* Users service.  create is a findOne query followed, when nothing was    *)
(* found, by a save; each is one round trip to the database and the calls  *)
(* of other callers may run between the two.  The schema declares          *)
(* matricule and email unique, so the collection's unique indexes reject   *)
(* the insert of a duplicate with a duplicate-key error.                   *)
(***************************************************************************)
Callers == {"p1", "p2"}

Emails == {"a@iers", "b@iers"}

Matricules == {"M1", "M2"}

CreateUserDtos == [email : Emails, matricule : Matricules]

NoCall == [pc |-> "idle", dto |-> "none", result |-> "none"]

\* userModel.findOne({$or: [{email}, {matricule}]})
findOneByEmailOrMatricule(collection, dto) ==
    {i \in DOMAIN collection :
        \/ collection[i].email = dto.email
        \/ collection[i].matricule = dto.matricule}

\* the unique indexes on email and on matricule
violatesUniqueIndex(collection, doc) ==
    \E i \in DOMAIN collection :
        \/ collection[i].email = doc.email
        \/ collection[i].matricule = doc.matricule

\* enum UserRole
UserRoles == {"HR", "MANAGER", "EMPLOYEE"}

\* the ids a request may name; the last one is never stored
UserIds == {1, 2, 3}

\* the _id of a new document: one no stored document has
newId(collection) ==
    CHOOSE n \in 1..(Len(collection) + 1) :
        \A i \in DOMAIN collection : collection[i]._id /= n

\* new this.userModel(createUserDto): the schema's defaults fill role and
\* isActive, which the create requests of this model leave out
newDocument(collection, dto) ==
    [_id |-> newId(collection), email |-> dto.email,
     matricule |-> dto.matricule, role |-> "EMPLOYEE", isActive |-> TRUE]

\* the bodies of PATCH /users/:id that touch role or isActive
UpdateUserDtos ==
    [role : UserRoles] \cup [isActive : BOOLEAN]

idsOfCollection(collection) == {collection[i]._id : i \in DOMAIN collection}

\* userModel.findByIdAndUpdate(id, updateUserDto): the fields of the dto
\* replace those of the document, the others stay
findByIdAndUpdate(collection, id, updateUserDto) ==
    [i \in DOMAIN collection |->
        IF collection[i]._id = id
        THEN updateUserDto @@ collection[i]
        ELSE collection[i]]

\* userModel.findByIdAndDelete(id)
findByIdAndDelete(collection, id) ==
    SelectSeq(collection, LAMBDA u : u._id /= id)

\* UsersService.update: the new collection and what the caller receives
UsersService_update(collection, id, updateUserDto) ==
    [users |-> findByIdAndUpdate(collection, id, updateUserDto),
     result |-> IF id \in idsOfCollection(collection)
                THEN "updated" ELSE "NotFoundException"]

UsersService_remove(collection, id) ==
    [users |-> findByIdAndDelete(collection, id),
     result |-> IF id \in idsOfCollection(collection)
                THEN "removed" ELSE "NotFoundException"]

UsersService_updateRole(collection, id, role) ==
    UsersService_update(collection, id, [role |-> role])

UsersService_toggleActive(collection, id, isActive) ==
    UsersService_update(collection, id, [isActive |-> isActive])

\* RolesGuard: a handler with no @Roles is open to every authenticated
\* user, one with @Roles to the users whose role is listed
RolesGuard(requesterRole, requiredRoles) ==
    requiredRoles = {} \/ requesterRole \in requiredRoles

\* the collection the role requests start from: one manager, created earlier
SeedUsers ==
    <<[_id |-> 1, email |-> "a@iers", matricule |-> "M1",
       role |-> "MANAGER", isActive |-> TRUE]>>

Init ==
    /\ op = "idle"
    /\ request = "none"
    /\ response = "none"
    /\ users = <<>>
    /\ calls = [p \in Callers |-> NoCall]

\* a caller calls create(createUserDto)
CreateCall(p) ==
    /\ calls[p].pc = "idle"
    /\ \E dto \in CreateUserDtos :
          calls' = [calls EXCEPT ![p] = [pc |-> "findOne", dto |-> dto,
                                         result |-> "none"]]
    /\ UNCHANGED <<users, engineVars>>

\* the findOne query is answered; an existing user throws ConflictException
CreateFindOne(p) ==
    /\ calls[p].pc = "findOne"
    /\ LET existingUser == findOneByEmailOrMatricule(users, calls[p].dto)
       IN  IF existingUser /= {}
           THEN calls' = [calls EXCEPT ![p].pc = "done",
                                       ![p].result = "ConflictException"]
           ELSE calls' = [calls EXCEPT ![p].pc = "save"]
    /\ UNCHANGED <<users, engineVars>>

\* createdUser.save() is answered
CreateSave(p) ==
    /\ calls[p].pc = "save"
    /\ IF violatesUniqueIndex(users, calls[p].dto)
       THEN /\ calls' = [calls EXCEPT ![p].pc = "done",
                                      ![p].result = "MongoServerError"]
            /\ UNCHANGED users
       ELSE /\ users' = Append(users, newDocument(users, calls[p].dto))
            /\ calls' = [calls EXCEPT ![p].pc = "done",
                                      ![p].result = "created"]
    /\ UNCHANGED engineVars

\* the caller receives the result and may call again
CreateReturn(p) ==
    /\ calls[p].pc = "done"
    /\ calls' = [calls EXCEPT ![p] = NoCall]
    /\ UNCHANGED <<users, engineVars>>

CalculateLevelMatch ==
    /\ op = "idle"
    /\ \E e \in Levels, r \in Levels :
          /\ request' = [employeeLevel |-> e, requiredLevel |-> r]
          /\ response' = calculateLevelMatch(e, r)
    /\ op' = "calculateLevelMatch"
    /\ UNCHANGED usersVars

CalculateContextualFit ==
    /\ op = "idle"
    /\ \E t \in Levels, e \in Levels :
          /\ request' = [targetLevel |-> t, employeeLevel |-> e]
          /\ response' = calculateContextualFit(t, e)
    /\ op' = "calculateContextualFit"
    /\ UNCHANGED usersVars

CalculateProgressionPotential ==
    /\ op = "idle"
    /\ \E skillEvolution \in EvolutionHistories :
          /\ request' = [skillEvolution |-> skillEvolution]
          /\ response' = calculateProgressionPotential(skillEvolution)
    /\ op' = "calculateProgressionPotential"
    /\ UNCHANGED usersVars

CalculateScore ==
    /\ op = "idle"
    /\ \E e \in ScoreEmployees, a \in ScoreActivities,
          w \in WeightConfigurations :
          /\ request' = [employee |-> e, activity |-> a, weights |-> w]
          /\ response' = calculateScore(e, a, w)
    /\ op' = "calculateScore"
    /\ UNCHANGED usersVars

\* candidates.sort(...) sorts the caller's array in place and returns that
\* same array: response.candidates is the caller's array after the call.
BreakTies ==
    /\ op = "idle"
    /\ \E ids \in IdLists :
          \E profiles \in [DOMAIN ids -> TieProfiles] :
             LET candidates ==
                     [i \in DOMAIN ids |-> TieCandidate(ids[i], profiles[i])]
             IN  /\ request' = [candidates |-> candidates]
                 /\ response' = [result |-> breakTies(candidates),
                                 candidates |-> breakTies(candidates)]
    /\ op' = "breakTies"
    /\ UNCHANGED usersVars

ParetoFront ==
    /\ op = "idle"
    /\ \E ids \in IdLists, objectives \in ObjectiveLists :
          \E values \in [DOMAIN ids -> ObjectiveVectors] :
             LET employees ==
                     [i \in DOMAIN ids |->
                         [id |-> ids[i], objectiveValues |-> values[i]]]
             IN  /\ request' = [employees |-> employees,
                                activity |-> Activity(<<>>, "LOW", 2, 0),
                                objectives |-> objectives]
                 /\ response' =
                        [result |-> multiObjectiveOptimize(employees,
                                        Activity(<<>>, "LOW", 2, 0),
                                        objectives)]
    /\ op' = "paretoFront"
    /\ UNCHANGED usersVars

(***************************************************************************)
(* multiObjectiveOptimize step by step: one step is one dominance          *)
(* comparison of the current employee with a member of the front (or the   *)
(* push of an employee no member dominates, or the return).  The caller    *)
(* may raise its cancellation signal at any moment of the run; the loop    *)
(* has no parameter for it and never reads it.                             *)
(***************************************************************************)
ParetoRunEmployees ==
    UNION {{[i \in 1..n |-> [id |-> IdOrderOf(i), objectiveValues |-> v[i]]] :
              v \in [1..n -> ObjectiveVectors]} : n \in 0..MaxCandidates}

ParetoStart ==
    /\ op = "idle"
    /\ \E employees \in ParetoRunEmployees, objectives \in ObjectiveLists :
          request' = [employees |-> employees,
                      activity |-> Activity(<<>>, "LOW", 2, 0),
                      objectives |-> objectives,
                      cancelledAt |-> -1]
    /\ response' = [i |-> 1, j |-> 1, paretoFront |-> <<>>, comparisons |-> 0]
    /\ op' = "multiObjectiveOptimize.running"
    /\ UNCHANGED usersVars

ParetoStep ==
    /\ op = "multiObjectiveOptimize.running"
    /\ LET i == response.i
           j == response.j
           front == response.paretoFront
       IN  IF i > Len(request.employees)
           THEN /\ response' = [result |-> front,
                                comparisons |-> response.comparisons]
                /\ op' = "multiObjectiveOptimize.done"
           ELSE LET employee == request.employees[i]
                    scores == objectiveScores(employee, request.activity,
                                              request.objectives)
                IN  /\ op' = op
                    /\ IF j > Len(front)
                       THEN response' =
                               [response EXCEPT
                                   !.i = i + 1, !.j = 1,
                                   !.paretoFront =
                                       Append(front, [employee |-> employee,
                                                      scores |-> scores])]
                       ELSE IF dominates(front[j].scores, scores)
                       THEN response' =
                               [response EXCEPT
                                   !.i = i + 1, !.j = 1,
                                   !.comparisons = response.comparisons + 1]
                       ELSE response' =
                               [response EXCEPT
                                   !.j = j + 1,
                                   !.comparisons = response.comparisons + 1]
    /\ UNCHANGED <<request, usersVars>>

\* the caller raises the cancellation signal during the run
ParetoCancel ==
    /\ op = "multiObjectiveOptimize.running"
    /\ request.cancelledAt = -1
    /\ request' = [request EXCEPT !.cancelledAt = response.comparisons]
    /\ UNCHANGED <<op, response, usersVars>>

(***************************************************************************)
(* Sharded scoring of one activity's candidates (spec section 5): every    *)
(* candidate is assigned to a worker; a worker scores the candidates of    *)
(* its shard one by one, in list order, into its own results; a worker     *)
(* that has scored its shard hands its results to the merge, which appends *)
(* them in the order of arrival; when every worker has handed in, the      *)
(* merged results are ranked.                                              *)
(***************************************************************************)
shardOf(w) == SelectSeq([i \in DOMAIN request.employees |-> i],
                        LAMBDA i : request.shards[i] = w)

ShardedStart ==
    /\ op = "idle"
    /\ \E employees \in ShardLists :
          \E shards \in [DOMAIN employees -> Workers] :
             request' = [employees |-> employees,
                         activity |->
                            Activity(<<Requirement("A", "HIGH", R(3, 5), TRUE),
                                       Requirement("B", "MEDIUM", R(2, 5),
                                                   FALSE)>>, "HIGH", 2, 0),
                         weights |-> DefaultWeights,
                         shards |-> shards]
    /\ response' = [scored |-> [w \in Workers |-> <<>>],
                    handedIn |-> {},
                    merged |-> <<>>]
    /\ op' = "scoreSharded.running"
    /\ UNCHANGED usersVars

WorkerScore(w) ==
    /\ op = "scoreSharded.running"
    /\ Len(response.scored[w]) < Len(shardOf(w))
    /\ LET i == shardOf(w)[Len(response.scored[w]) + 1]
       IN  response' =
              [response EXCEPT
                  !.scored[w] =
                      Append(@, scoreEntry(request.employees[i],
                                           request.activity, request.weights))]
    /\ UNCHANGED <<op, request, usersVars>>

WorkerHandIn(w) ==
    /\ op = "scoreSharded.running"
    /\ w \notin response.handedIn
    /\ Len(response.scored[w]) = Len(shardOf(w))
    /\ response' = [response EXCEPT !.handedIn = @ \cup {w},
                                    !.merged = @ \o response.scored[w]]
    /\ UNCHANGED <<op, request, usersVars>>

ShardedRank ==
    /\ op = "scoreSharded.running"
    /\ response.handedIn = Workers
    /\ response' = [result |-> rankScored(response.merged, request.activity)]
    /\ op' = "scoreSharded.done"
    /\ UNCHANGED <<request, usersVars>>

ApplySeatConstraint ==
    /\ op = "idle"
    /\ \E ids \in IdLists, a \in PipelineActivities :
          LET candidates == [i \in DOMAIN ids |-> [id |-> ids[i]]]
          IN  /\ request' = [candidates |-> candidates, activity |-> a]
              /\ response' = [result |-> SeatConstraint_apply(candidates, a)]
    /\ op' = "applySeatConstraint"
    /\ UNCHANGED usersVars

ValidateMandatorySkills ==
    /\ op = "idle"
    /\ \E sk \in SkillSets, rs \in RequiredSkillLists :
          LET employee == [id |-> "emp", skills |-> sk]
              activity == Activity(rs, "HIGH", 2, 0)
          IN  /\ request' = [employee |-> employee, activity |-> activity]
              /\ response' =
                    [valid |-> MandatorySkillConstraint_validate(employee,
                                                                 activity)]
    /\ op' = "validateMandatorySkills"
    /\ UNCHANGED usersVars

ScoreBatch ==
    /\ op = "idle"
    /\ \E employees \in BatchLists, a \in BatchActivities,
          w \in {DefaultWeights, Weights(RInt(0), RInt(0), RInt(0), RInt(1)),
                 Weights(R(1, 2), R(1, 2), R(1, 2), R(1, 2))} :
          /\ request' = [employees |-> employees, activity |-> a,
                         weights |-> w]
          /\ response' = scoreBatch(employees, a, w)
    /\ op' = "scoreBatch"
    /\ UNCHANGED usersVars

\* every strategy sorts the array that filter and map created, not the
\* caller's: response.employees is the caller's array after the call.
Optimize ==
    /\ op = "idle"
    /\ \E employees \in EmployeeLists, a \in PipelineActivities,
          strategy \in StrategyNames, selection \in CurrentSelections :
          /\ request' = [employees |-> employees, activity |-> a,
                         strategy |-> strategy,
                         params |-> [currentSelection |-> selection]]
          /\ LET out == optimize(employees, a, strategy,
                                  [currentSelection |-> selection])
             IN  response' = IF "error" \in DOMAIN out
                             THEN out
                             ELSE [result |-> out.result,
                                   employees |-> employees]
    /\ op' = "optimize"
    /\ UNCHANGED usersVars

Recommend ==
    /\ op = "idle"
    /\ \E employees \in EmployeeLists, a \in PipelineActivities,
          strategy \in StrategyNames, c \in ConstraintConfigurations,
          w \in {DefaultWeights, Weights(R(1, 2), R(1, 2), R(1, 2), R(1, 2))} :
          /\ request' = [employees |-> employees, activity |-> a,
                         strategy |-> strategy, constraints |-> c,
                         weights |-> w]
          /\ response' = recommend(employees, a, strategy, c, w)
    /\ op' = "recommend"
    /\ UNCHANGED usersVars

NextScoring ==
    \/ CalculateLevelMatch
    \/ CalculateContextualFit
    \/ CalculateProgressionPotential
    \/ CalculateScore

NextRanking ==
    \/ BreakTies
    \/ ParetoFront
    \/ ApplySeatConstraint

NextPipeline ==
    \/ ValidateMandatorySkills
    \/ Optimize
    \/ Recommend

\* a request the guards answered with 403
Forbidden(p, handler, requesterRole) ==
    /\ calls[p].pc = "idle"
    /\ calls' = [calls EXCEPT ![p] =
                    [pc |-> "done",
                     dto |-> [handler |-> handler, requesterRole |-> requesterRole],
                     result |-> "ForbiddenException"]]
    /\ UNCHANGED <<users, engineVars>>

\* a request the guards let through to a service call that is one database
\* operation
Served(p, handler, requesterRole, outcome) ==
    /\ calls[p].pc = "idle"
    /\ users' = outcome.users
    /\ calls' = [calls EXCEPT ![p] =
                    [pc |-> "done",
                     dto |-> [handler |-> handler, requesterRole |-> requesterRole],
                     result |-> outcome.result]]
    /\ UNCHANGED engineVars

\* POST /users, @Roles(HR)
UsersController_create(p) ==
    \E requesterRole \in UserRoles :
        IF RolesGuard(requesterRole, {"HR"})
        THEN CreateCall(p)
        ELSE Forbidden(p, "create", requesterRole)

\* PATCH /users/:id, no @Roles
UsersController_update(p) ==
    \E requesterRole \in UserRoles, id \in UserIds, updateUserDto \in UpdateUserDtos :
        IF RolesGuard(requesterRole, {})
        THEN Served(p, "update", requesterRole,
                    UsersService_update(users, id, updateUserDto))
        ELSE Forbidden(p, "update", requesterRole)

\* DELETE /users/:id, @Roles(HR)
UsersController_remove(p) ==
    \E requesterRole \in UserRoles, id \in UserIds :
        IF RolesGuard(requesterRole, {"HR"})
        THEN Served(p, "remove", requesterRole, UsersService_remove(users, id))
        ELSE Forbidden(p, "remove", requesterRole)

\* PATCH /users/:id/role, @Roles(HR)
UsersController_updateRole(p) ==
    \E requesterRole \in UserRoles, id \in UserIds, role \in UserRoles :
        IF RolesGuard(requesterRole, {"HR"})
        THEN Served(p, "updateRole", requesterRole,
                    UsersService_updateRole(users, id, role))
        ELSE Forbidden(p, "updateRole", requesterRole)

\* PATCH /users/:id/activate, @Roles(HR)
UsersController_toggleActive(p) ==
    \E requesterRole \in UserRoles, id \in UserIds, isActive \in BOOLEAN :
        IF RolesGuard(requesterRole, {"HR"})
        THEN Served(p, "toggleActive", requesterRole,
                    UsersService_toggleActive(users, id, isActive))
        ELSE Forbidden(p, "toggleActive", requesterRole)

\* the state the role requests start from
InitRoles ==
    /\ op = "idle"
    /\ request = "none"
    /\ response = "none"
    /\ users = SeedUsers
    /\ calls = [p \in Callers |-> NoCall]

NextRoles ==
    \/ \E p \in Callers : UsersController_create(p)
    \/ \E p \in Callers : CreateFindOne(p)
    \/ \E p \in Callers : CreateSave(p)
    \/ \E p \in Callers : CreateReturn(p)
    \/ \E p \in Callers : UsersController_update(p)
    \/ \E p \in Callers : UsersController_remove(p)
    \/ \E p \in Callers : UsersController_updateRole(p)
    \/ \E p \in Callers : UsersController_toggleActive(p)

NextUsers ==
    \/ \E p \in Callers : CreateCall(p)
    \/ \E p \in Callers : CreateFindOne(p)
    \/ \E p \in Callers : CreateSave(p)
    \/ \E p \in Callers : CreateReturn(p)

NextPareto ==
    \/ ParetoStart
    \/ ParetoStep
    \/ ParetoCancel

NextSharded ==
    \/ ShardedStart
    \/ \E w \in Workers : WorkerScore(w)
    \/ \E w \in Workers : WorkerHandIn(w)
    \/ ShardedRank

Next ==
    \/ CalculateLevelMatch
    \/ CalculateContextualFit
    \/ CalculateProgressionPotential
    \/ CalculateScore
    \/ BreakTies
    \/ ParetoFront
    \/ ApplySeatConstraint
    \/ ParetoStart
    \/ ParetoStep
    \/ ParetoCancel
    \/ ShardedStart
    \/ \E w \in Workers : WorkerScore(w)
    \/ \E w \in Workers : WorkerHandIn(w)
    \/ ShardedRank
    \/ ScoreBatch
    \/ ValidateMandatorySkills
    \/ Optimize
    \/ Recommend
    \/ \E p \in Callers : CreateCall(p)
    \/ \E p \in Callers : CreateFindOne(p)
    \/ \E p \in Callers : CreateSave(p)
    \/ \E p \in Callers : CreateReturn(p)

Spec == Init /\ [][Next]_vars

\* the calls of the score calculator alone
SpecScoring == Init /\ [][NextScoring]_vars

\* the concurrent calls of the users service alone
SpecUsers == Init /\ [][NextUsers]_vars

\* the requests of the users controller, from users of every role
SpecRoles == InitRoles /\ [][NextRoles]_vars

\* one run of the Pareto loop, step by step, with its cancellation signal
SpecPareto == Init /\ [][NextPareto]_vars

\* one sharded scoring of a candidate list by concurrent workers
SpecSharded == Init /\ [][NextSharded]_vars

\* the calls of batch scoring alone
SpecBatch == Init /\ [][ScoreBatch]_vars

\* the calls of the list operations alone
SpecRanking == Init /\ [][NextRanking]_vars

\* the calls of the constraints, of the strategy engine and of the
\* recommendation assembly alone
SpecPipeline == Init /\ [][NextPipeline]_vars

(***************************************************************************)
(* Properties.                                                             *)
(***************************************************************************)
InRange(x) == RLe(RInt(0), x) /\ RLe(x, RInt(100))

WeightNames == {"skillMatch", "experience", "progression", "context"}

\* Stated without the engine's own validation: each weight in [0,1] and the
\* sum within epsilon of 1.
IsValidConfiguration(w) ==
    /\ \A k \in WeightNames : w[k][1] >= 0 /\ w[k][1] <= w[k][2]
    /\ LET sum == weightSum(w)
       IN  /\ 1000000 * sum[1] >= 999999 * sum[2]
           /\ 1000000 * sum[1] <= 1000001 * sum[2]

\* C1: for every employee/activity pair and every valid weight configuration,
\* calculateScore returns a breakdown whose totalScore, skillScore,
\* experienceScore, progressionScore and contextScore all lie in [0,100].
C1_ScoresInRange ==
    (op = "calculateScore" /\ IsValidConfiguration(request.weights)) =>
        /\ DOMAIN response = {"totalScore", "breakdown"}
        /\ InRange(response.totalScore)
        /\ InRange(response.breakdown.skillScore)
        /\ InRange(response.breakdown.experienceScore)
        /\ InRange(response.breakdown.progressionScore)
        /\ InRange(response.breakdown.contextScore)

\* C1 witness: a score of a non-default valid configuration in which the
\* experience score reaches its cap of 100 and the progression score its
\* floor of 0.
C1_Witness ==
    /\ op = "calculateScore"
    /\ IsValidConfiguration(request.weights)
    /\ request.weights /= DefaultWeights
    /\ response.breakdown.experienceScore = RInt(100)
    /\ response.breakdown.progressionScore = RInt(0)
    /\ RLt(RInt(0), response.totalScore)

\* C6: calculateScore with a weight outside [0,1], or with weights summing
\* outside 1 +/- epsilon, fails with ValidationError and returns no score.
C6_InvalidWeightsRejected ==
    (op = "calculateScore" /\ ~IsValidConfiguration(request.weights)) =>
        /\ response = [error |-> "ValidationError"]
        /\ "totalScore" \notin DOMAIN response
        /\ "breakdown" \notin DOMAIN response

\* C6 witness: a configuration whose weights sum to 1 but with one weight above
\* 1 and one below 0 was rejected.
C6_Witness ==
    /\ op = "calculateScore"
    /\ weightSum(request.weights) = RInt(1)
    /\ \E k \in WeightNames : RLt(RInt(1), request.weights[k])
    /\ response = [error |-> "ValidationError"]

ExampleActivity ==
    Activity(<<Requirement("A", "HIGH", R(3, 5), TRUE),
               Requirement("B", "MEDIUM", R(2, 5), FALSE)>>, "HIGH", 2, 0)

ExampleEmployee ==
    [id |-> "emp",
     skills |-> {SkillRecord("A", "EXPERT"), SkillRecord("B", "LOW")},
     experience |-> [yearsOfExperience |-> 5, history |-> <<>>],
     skillEvolution |-> <<>>, level |-> "EXPERT"]

IsExampleCall ==
    /\ op = "calculateScore"
    /\ request.employee = ExampleEmployee
    /\ request.activity = ExampleActivity
    /\ request.weights = DefaultWeights

\* C9: the end-to-end example (A mandatory HIGH 0.6, B optional MEDIUM 0.4,
\* target HIGH; employee A=EXPERT, B=LOW, 5 years, no history, level EXPERT;
\* default weights) scores skill 74, experience 25, progression 50, context 80
\* and total 61.5.
C9_EndToEndExample ==
    IsExampleCall =>
        /\ response.breakdown.skillScore = RInt(74)
        /\ response.breakdown.experienceScore = RInt(25)
        /\ response.breakdown.progressionScore = RInt(50)
        /\ response.breakdown.contextScore = RInt(80)
        /\ response.totalScore = R(123, 2)

\* C9 witness: the example call was made and returned a score.
C9_Witness == IsExampleCall /\ "totalScore" \in DOMAIN response

\* C10: levelScore is exactly 1 when the employee's ordinal is at least the
\* required one, and otherwise exactly (employee ordinal / required ordinal)
\* * 0.7; LOW against EXPERT gives 0.175.
C10_LevelScore ==
    op = "calculateLevelMatch" =>
        LET e == levelMap[request.employeeLevel]
            r == levelMap[request.requiredLevel]
        IN  /\ e >= r => response = <<1, 1>>
            /\ e < r => response[1] * 10 * r = 7 * e * response[2]
            /\ (e = 1 /\ r = 4) => response = <<7, 40>>

\* C10 witness: LOW was matched against EXPERT and got 0.175.
C10_Witness ==
    /\ op = "calculateLevelMatch"
    /\ request.employeeLevel = "LOW"
    /\ request.requiredLevel = "EXPERT"
    /\ response = <<7, 40>>

ObjectiveVector(employee) ==
    objectiveScores(employee, request.activity, request.objectives)

InFront(employee) ==
    \E i \in DOMAIN response.result : response.result[i].employee = employee

\* C4: no member of the front returned by paretoFront is dominated by any
\* candidate of the full set, and every candidate outside the front is
\* dominated by at least one member of the front.
C4_ParetoFront ==
    op = "paretoFront" =>
        /\ \A i \in DOMAIN response.result :
              \A j \in DOMAIN request.employees :
                 ~dominates(ObjectiveVector(request.employees[j]),
                            response.result[i].scores)
        /\ \A j \in DOMAIN request.employees :
              ~InFront(request.employees[j]) =>
                 \E i \in DOMAIN response.result :
                    dominates(response.result[i].scores,
                              ObjectiveVector(request.employees[j]))

Reordered(list, f) == [i \in DOMAIN list |-> list[f[i]]]

\* C5: breakTies is deterministic: for candidates with distinct ids the output
\* order is the same for every permutation of the input list, also when every
\* sort key is identical.
C5_BreakTiesPermutationInvariant ==
    op = "breakTies" =>
        \A f \in Permutations(DOMAIN request.candidates) :
            breakTies(Reordered(request.candidates, f)) = response.result

\* the employee holds no skill record for some mandatory requirement
LacksMandatorySkill(employee, activity) ==
    \E i \in DOMAIN activity.requiredSkills :
        /\ activity.requiredSkills[i].isMandatory
        /\ ~\E sk \in employee.skills :
              sk.skillId = activity.requiredSkills[i].skillId

NamesMissingSkill(entry, employee, activity) ==
    \E k \in DOMAIN entry.reasoning :
        /\ "skillId" \in DOMAIN entry.reasoning[k]
        /\ \E i \in DOMAIN activity.requiredSkills :
              /\ activity.requiredSkills[i].isMandatory
              /\ activity.requiredSkills[i].skillId
                    = entry.reasoning[k].skillId
              /\ ~\E sk \in employee.skills :
                    sk.skillId = entry.reasoning[k].skillId

EmployeeOf(employeeId) ==
    CHOOSE e \in {request.employees[i] : i \in DOMAIN request.employees} :
        e.id = employeeId

\* C2: an employee that lacks a mandatory skill gets totalScore exactly 0
\* under every valid weight configuration, and in the recommendation output
\* is flagged eligible = FALSE with reasoning that names the missing skill.
C2_MandatoryDisqualification ==
    /\ (/\ op = "calculateScore"
        /\ IsValidConfiguration(request.weights)
        /\ LacksMandatorySkill(request.employee, request.activity))
          => response.totalScore = RInt(0)
    /\ (op = "recommend" /\ "results" \in DOMAIN response) =>
          \A i \in DOMAIN response.results :
             LET entry == response.results[i]
                 employee == EmployeeOf(entry.employeeId)
             IN  LacksMandatorySkill(employee, request.activity) =>
                    /\ entry.totalScore = RInt(0)
                    /\ entry.eligible = FALSE
                    /\ NamesMissingSkill(entry, employee, request.activity)

\* C3: the selected set has at most availableSeats - filledSeats members.
C3_SeatLimit ==
    /\ op = "applySeatConstraint" =>
          Len(response.result)
             <= request.activity.availableSeats - request.activity.filledSeats
    /\ (op = "recommend" /\ "recommendations" \in DOMAIN response) =>
          Len(response.recommendations)
             <= request.activity.availableSeats - request.activity.filledSeats

\* C7: optimize with a strategy name outside the four strategies fails with
\* ConfigurationError and returns no ordering; it never falls back to a
\* default strategy.
C7_UnknownStrategyRejected ==
    (/\ op = "optimize"
     /\ request.strategy
           \notin {"UPSKILLING", "EXPERTISE", "BALANCED", "DIVERSITY"}) =>
        /\ response = [error |-> "ConfigurationError"]
        /\ "result" \notin DOMAIN response

\* C7 witness: optimize was called on a non-empty list with an unknown
\* strategy name and failed.
C7_Witness ==
    /\ op = "optimize"
    /\ request.strategy = "RANDOM"
    /\ Len(request.employees) > 0
    /\ response = [error |-> "ConfigurationError"]

ViolatesHardConstraint(employee, activity, constraints) ==
    \/ LacksMandatorySkill(employee, activity)
    \/ /\ constraints.mandatorySkills
       /\ ~MandatorySkillConstraint_validate(employee, activity)
    \/ /\ constraints.checkAvailability
       /\ ~AvailabilityConstraint_validate(employee, activity)

\* C8: no candidate is silently dropped: every employee given to the pipeline
\* appears exactly once in the full output, and one that misses a mandatory
\* skill or violates a hard constraint is there with eligible = FALSE and a
\* non-empty violations list.
C8_NoCandidateDropped ==
    (op = "recommend" /\ "results" \in DOMAIN response) =>
        /\ \A j \in DOMAIN request.employees :
              Cardinality({i \in DOMAIN response.results :
                              response.results[i].employeeId
                                 = request.employees[j].id}) = 1
        /\ Len(response.results) = Len(request.employees)
        /\ \A j \in DOMAIN request.employees :
              ViolatesHardConstraint(request.employees[j], request.activity,
                                     request.constraints) =>
                 \E i \in DOMAIN response.results :
                    /\ response.results[i].employeeId = request.employees[j].id
                    /\ response.results[i].eligible = FALSE
                    /\ Len(response.results[i].violations) > 0

\* C8 witness: a recommendation over three employees of which one is
\* eligible and ranked and the two others are reported as ineligible.
C8_Witness ==
    /\ op = "recommend"
    /\ "results" \in DOMAIN response
    /\ Len(request.employees) = 3
    /\ Len(response.results) = 3
    /\ response.results[1].eligible
    /\ ~response.results[2].eligible
    /\ ~response.results[3].eligible

\* the number of steps between two levels on the scale LOW, MEDIUM, HIGH,
\* EXPERT, counted without the engine's level map
LevelScale == <<"LOW", "MEDIUM", "HIGH", "EXPERT">>

OrdinalOf(level) == CHOOSE i \in DOMAIN LevelScale : LevelScale[i] = level

OrdinalDistance(a, b) ==
    IF OrdinalOf(a) >= OrdinalOf(b)
    THEN OrdinalOf(a) - OrdinalOf(b)
    ELSE OrdinalOf(b) - OrdinalOf(a)

\* C11: contextScore depends only on the absolute ordinal distance between
\* the target level and the employee's level: 0 gives 100, 1 gives 80, 2 gives
\* 50, 3 or more gives 20; (EXPERT, LOW) gives 20, (HIGH, HIGH) gives 100, and
\* swapping target and employee gives the same score.
C11_ContextScoreByDistance ==
    op = "calculateContextualFit" =>
        LET d == OrdinalDistance(request.targetLevel, request.employeeLevel)
        IN  /\ d = 0 => response = <<100, 1>>
            /\ d = 1 => response = <<80, 1>>
            /\ d = 2 => response = <<50, 1>>
            /\ d >= 3 => response = <<20, 1>>
            /\ (request.targetLevel = "EXPERT" /\ request.employeeLevel = "LOW")
                  => response = <<20, 1>>
            /\ (request.targetLevel = "HIGH" /\ request.employeeLevel = "HIGH")
                  => response = <<100, 1>>
            /\ calculateContextualFit(request.employeeLevel,
                                      request.targetLevel) = response

\* C11 witness: an employee two levels above the target (target LOW, employee
\* HIGH) got 50.
C11_Witness ==
    /\ op = "calculateContextualFit"
    /\ request.targetLevel = "LOW"
    /\ request.employeeLevel = "HIGH"
    /\ response = <<50, 1>>

\* the record lacks its skills, the first thing the score calculation reads
LacksSkillsField(employee) == "skills" \notin DOMAIN employee

WellFormedOnly(employees) ==
    SelectSeq(employees, LAMBDA e : ~LacksSkillsField(e))

EntryOf(results, employeeId) ==
    {results[i] : i \in {k \in DOMAIN results :
                            results[k].employeeId = employeeId}}

\* C12: scoring a batch that holds a malformed record completes; the
\* malformed candidate is in the output with an error annotation, and every
\* other candidate has the score and eligibility it gets from the batch
\* without the malformed candidates (and from being scored alone).
C12_MalformedIsolated ==
    (op = "scoreBatch" /\ IsValidConfiguration(request.weights)) =>
        /\ "results" \in DOMAIN response
        /\ Len(response.results) = Len(request.employees)
        /\ \A i \in DOMAIN request.employees :
              LET e == request.employees[i]
                  entry == response.results[i]
              IN  /\ entry.employeeId = e.id
                  /\ LacksSkillsField(e) =>
                        /\ "error" \in DOMAIN entry
                        /\ "totalScore" \notin DOMAIN entry
                  /\ ~LacksSkillsField(e) =>
                        /\ "error" \notin DOMAIN entry
                        /\ entry.totalScore
                              = calculateEmployeeScore(e, request.activity,
                                    request.weights).totalScore
                        /\ entry.eligible
                              = ~LacksMandatorySkill(e, request.activity)
                        /\ EntryOf(scoreBatch(WellFormedOnly(request.employees),
                                       request.activity,
                                       request.weights).results, e.id)
                              = {entry}

\* C12 witness: a batch of three with the malformed record in the middle
\* completed, annotated it and scored the two others.
C12_Witness ==
    /\ op = "scoreBatch"
    /\ "results" \in DOMAIN response
    /\ Len(request.employees) = 3
    /\ LacksSkillsField(request.employees[2])
    /\ "error" \in DOMAIN response.results[2]
    /\ "totalScore" \in DOMAIN response.results[1]
    /\ "totalScore" \in DOMAIN response.results[3]

\* lexical order of the candidate ids of the pool
IdOrder == <<"c1", "c2", "c3", "c4">>

IdIndex(id) == CHOOSE i \in DOMAIN IdOrder : IdOrder[i] = id

TotalsTied(a, b) ==
    LET diff == RSub(a.totalScore, b.totalScore)
    IN  1000000 * Abs(diff[1]) < diff[2]

\* a goes before b by the precedence of the tie-break rule
PrecedesInTie(a, b) ==
    IF a.progressionScore /= b.progressionScore
    THEN RLt(b.progressionScore, a.progressionScore)
    ELSE IF a.contextScore /= b.contextScore
    THEN RLt(b.contextScore, a.contextScore)
    ELSE IF a.lastActivityDate /= b.lastActivityDate
    THEN a.lastActivityDate < b.lastActivityDate
    ELSE IdIndex(a.id) < IdIndex(b.id)

\* C13: in the output of breakTies, two candidates whose total scores differ
\* by less than 1e-6 are ordered by higher progressionScore, then higher
\* contextScore, then earlier lastActivityDate, then lexically smaller id;
\* two candidates whose totals differ by 1e-6 or more are ordered by higher
\* total score first.
C13_TieBreakPrecedence ==
    op = "breakTies" =>
        \A i, j \in DOMAIN response.result :
            i < j =>
                LET a == response.result[i]
                    b == response.result[j]
                IN  IF TotalsTied(a, b)
                    THEN PrecedesInTie(a, b)
                    ELSE RLt(b.totalScore, a.totalScore)

NoSharedEmailOrMatricule ==
    \A i, j \in DOMAIN users :
        i /= j => /\ users[i].email /= users[j].email
                  /\ users[i].matricule /= users[j].matricule

FailedCreate(call) == call.pc = "done" /\ call.result /= "created"

\* C14: under every interleaving of concurrent create calls, no two stored
\* users share an email or a matricule, and a create that fails because its
\* email or matricule matches an existing user fails with ConflictException
\* and leaves the user collection unchanged.
C14_CreateUniqueness ==
    /\ [](NoSharedEmailOrMatricule)
    /\ [](\A p \in Callers :
            FailedCreate(calls[p]) => calls[p].result = "ConflictException")
    /\ [][\A p \in Callers :
            (~FailedCreate(calls[p]) /\ FailedCreate(calls'[p]))
               => users' = users]_vars

Holds(employee, skillId) == \E sk \in employee.skills : sk.skillId = skillId

LevelOfHeld(employee, skillId) ==
    (CHOOSE sk \in employee.skills : sk.skillId = skillId).level

\* the sum of the weights of the required skills the employee holds
RECURSIVE HeldWeight(_, _)
HeldWeight(employee, requiredSkills) ==
    IF requiredSkills = <<>>
    THEN RInt(0)
    ELSE RAdd(IF Holds(employee, Head(requiredSkills).skillId)
              THEN Head(requiredSkills).weight
              ELSE RInt(0),
              HeldWeight(employee, Tail(requiredSkills)))

\* the sum of levelScore * weight over the required skills the employee holds
RECURSIVE HeldLevelScore(_, _)
HeldLevelScore(employee, requiredSkills) ==
    IF requiredSkills = <<>>
    THEN RInt(0)
    ELSE RAdd(IF Holds(employee, Head(requiredSkills).skillId)
              THEN RMul(calculateLevelMatch(
                            LevelOfHeld(employee, Head(requiredSkills).skillId),
                            Head(requiredSkills).requiredLevel),
                        Head(requiredSkills).weight)
              ELSE RInt(0),
              HeldLevelScore(employee, Tail(requiredSkills)))

\* C15: for an employee that lacks no mandatory skill, skillScore is
\* 100 * sum(levelScore * w) / sum(w) over the required skills the employee
\* holds only (an optional skill it lacks is in neither sum), and 0 when that
\* sum of weights is 0.
C15_OptionalMissingExcluded ==
    (/\ op = "calculateScore"
     /\ "breakdown" \in DOMAIN response
     /\ ~LacksMandatorySkill(request.employee, request.activity)) =>
        LET reqs == request.activity.requiredSkills
            weight == HeldWeight(request.employee, reqs)
            score == HeldLevelScore(request.employee, reqs)
        IN  response.breakdown.skillScore
               = IF weight = RInt(0)
                 THEN RInt(0)
                 ELSE RMul(RInt(100), RDiv(score, weight))

\* C16: MandatorySkillConstraint rejects an employee exactly when the score
\* calculation disqualifies it, that is when it lacks a mandatory skill; an
\* employee that holds every mandatory skill, whatever the levels, passes the
\* constraint and keeps a skill score above 0.
C16_ConstraintAgreesWithScore ==
    op = "validateMandatorySkills" =>
        /\ response.valid
              = ~LacksMandatorySkill(request.employee, request.activity)
        /\ (/\ ~LacksMandatorySkill(request.employee, request.activity)
            /\ \E i \in DOMAIN request.activity.requiredSkills :
                  /\ request.activity.requiredSkills[i].isMandatory
                  /\ request.activity.requiredSkills[i].weight /= RInt(0))
              => /\ response.valid
                 /\ RLt(RInt(0),
                        calculateSkillMatch(request.employee.skills,
                            request.activity.requiredSkills))

EligibleOf(employees, activity) ==
    SelectSeq(employees, LAMBDA e : ~LacksMandatorySkill(e, activity))

ListedOnce(result, employee) ==
    Cardinality({i \in DOMAIN result : result[i].employee = employee}) = 1

ExpertiseOf(entry) == calculateExpertiseScore(entry.employee, request.activity)

UpskillingOf(entry) == calculateUpskillingScore(entry.employee, request.activity)

IsDiversityCall ==
    /\ op = "optimize"
    /\ request.strategy = "DIVERSITY"
    /\ request.params.currentSelection = <<>>

\* the employees selected before step k
SelectedBefore(result, k) == [i \in 1..(k - 1) |-> result[i].employee]

\* C18: in the Diversity strategy, the k-th selected candidate has the
\* maximum diversityScore among the eligible candidates not yet selected,
\* the score being computed relative to the first k-1 selected candidates.
C18_DiversityGreedyStep ==
    IsDiversityCall =>
        LET result == response.result
            eligible == EligibleOf(request.employees, request.activity)
        IN  \A k \in DOMAIN result :
               LET prior == SelectedBefore(result, k)
               IN  \A j \in DOMAIN eligible :
                      (\A i \in DOMAIN prior : prior[i] /= eligible[j]) =>
                         RLe(calculateDiversityScore(eligible[j],
                                 request.activity, prior),
                             calculateDiversityScore(result[k].employee,
                                 request.activity, prior))

\* C19: the Diversity strategy returns exactly
\* min(availableSeats - filledSeats, number of eligible candidates)
\* candidates, each eligible and none more than once.
C19_DiversitySelectionSize ==
    IsDiversityCall =>
        LET result == response.result
            eligible == EligibleOf(request.employees, request.activity)
            seats == request.activity.availableSeats
                        - request.activity.filledSeats
        IN  /\ Len(result) = IntMin(seats, Len(eligible))
            /\ \A i, j \in DOMAIN result :
                  i /= j => result[i].employee.id /= result[j].employee.id
            /\ \A i \in DOMAIN result :
                  \E j \in DOMAIN eligible : eligible[j] = result[i].employee

EligibleIds ==
    {request.employees[j].id :
        j \in {k \in DOMAIN request.employees :
                  ~ViolatesHardConstraint(request.employees[k],
                       request.activity, request.constraints)}}

IdsOf(entries) == {entries[i].employeeId : i \in DOMAIN entries}

\* C20: in the assembled recommendation, totalCandidates is the number of
\* input employees, qualified the number of eligible candidates and
\* recommended min(qualified, availableSeats - filledSeats); the recommended
\* candidates carry the ranks 1..recommended in order; the alternatives are
\* exactly the eligible candidates beyond the cutoff, disjoint from the
\* recommended ones.
C20_StatisticsAndRanks ==
    (op = "recommend" /\ "statistics" \in DOMAIN response) =>
        LET stats == response.statistics
            recs == response.recommendations
            alts == response.alternativeRecommendations
            seats == request.activity.availableSeats
                        - request.activity.filledSeats
        IN  /\ stats.totalCandidates = Len(request.employees)
            /\ stats.qualified = Cardinality(EligibleIds)
            /\ stats.recommended = IntMin(stats.qualified, seats)
            /\ stats.recommended <= stats.qualified
            /\ stats.qualified <= stats.totalCandidates
            /\ Len(recs) = stats.recommended
            /\ \A i \in DOMAIN recs : recs[i].rank = i
            /\ IdsOf(recs) \cap IdsOf(alts) = {}
            /\ IdsOf(recs) \cup IdsOf(alts) = EligibleIds
            /\ Len(recs) + Len(alts) = Cardinality(EligibleIds)

\* some commitment of the employee's calendar shares a day with the activity
CalendarOverlaps(employee, activity) ==
    \E i \in DOMAIN employee.schedule :
        \E day \in activity.startDate..activity.endDate :
            /\ employee.schedule[i].startDate <= day
            /\ day <= employee.schedule[i].endDate

HasViolation(entry, code) ==
    \E k \in DOMAIN entry.violations : entry.violations[k].code = code

ResultOf(employeeId) ==
    CHOOSE entry \in {response.results[i] : i \in DOMAIN response.results} :
        entry.employeeId = employeeId

\* C21: with checkAvailability enabled, a candidate whose committed calendar
\* overlaps the activity's date range is not eligible and carries an
\* availability violation; with checkAvailability disabled, no candidate
\* carries an availability violation and a candidate that violates nothing
\* else is eligible, whatever its calendar.
C21_AvailabilityConstraint ==
    (op = "recommend" /\ "results" \in DOMAIN response) =>
        \A j \in DOMAIN request.employees :
            LET employee == request.employees[j]
                entry == ResultOf(employee.id)
                overlaps == CalendarOverlaps(employee, request.activity)
            IN  /\ (request.constraints.checkAvailability /\ overlaps) =>
                      /\ ~entry.eligible
                      /\ HasViolation(entry, "AVAILABILITY_CONSTRAINT")
                /\ (request.constraints.checkAvailability /\ ~overlaps) =>
                      ~HasViolation(entry, "AVAILABILITY_CONSTRAINT")
                /\ ~request.constraints.checkAvailability =>
                      /\ ~HasViolation(entry, "AVAILABILITY_CONSTRAINT")
                      /\ entry.eligible
                            = ~ViolatesHardConstraint(employee,
                                   request.activity,
                                   [request.constraints
                                       EXCEPT !.checkAvailability = FALSE])

\* C21 witness: with checkAvailability enabled, e4 (committed during the
\* activity) is reported ineligible for its availability alone, next to e2
\* (committed after the activity), which carries no availability violation.
C21_Witness ==
    /\ op = "recommend"
    /\ "results" \in DOMAIN response
    /\ request.constraints.checkAvailability
    /\ \E i, j \in DOMAIN request.employees :
          /\ request.employees[i].id = "e4"
          /\ request.employees[j].id = "e2"
          /\ ResultOf("e4").violations = <<[code |-> "AVAILABILITY_CONSTRAINT"]>>
          /\ ~ResultOf("e4").eligible
          /\ ~HasViolation(ResultOf("e2"), "AVAILABILITY_CONSTRAINT")

HasDepartmentLimit == "departmentLimit" \in DOMAIN request.constraints

EligibleInResults(results, employeeId) ==
    \E i \in DOMAIN results :
        results[i].employeeId = employeeId /\ results[i].eligible

\* the answer to the same request without its department limit
WithoutDepartmentLimit ==
    recommend(request.employees, request.activity, request.strategy,
              [mandatorySkills |-> request.constraints.mandatorySkills,
               checkAvailability |-> request.constraints.checkAvailability],
              request.weights)

\* C22: the department limit never removes a candidate from the eligible
\* set: a candidate that violates no hard constraint is in the output with
\* eligible = TRUE and a rank, and the candidates that are eligible with the
\* limit are those that are eligible without it.
C22_SoftConstraintKeepsEligible ==
    (op = "recommend" /\ "results" \in DOMAIN response /\ HasDepartmentLimit) =>
        /\ \A j \in DOMAIN request.employees :
              LET employee == request.employees[j]
              IN  /\ ~ViolatesHardConstraint(employee, request.activity,
                                             request.constraints)
                        => EligibleInResults(response.results, employee.id)
                  /\ EligibleInResults(response.results, employee.id)
                        = EligibleInResults(WithoutDepartmentLimit.results,
                                            employee.id)
        /\ IdsOf(response.recommendations)
              \cup IdsOf(response.alternativeRecommendations)
              = IdsOf(WithoutDepartmentLimit.recommendations)
                   \cup IdsOf(WithoutDepartmentLimit.alternativeRecommendations)
        /\ response.statistics.qualified
              = WithoutDepartmentLimit.statistics.qualified

\* C22 witness: Upskilling with a limit of one per department over e2 and e1
\* (both IT) and e4 (HR): e1 is over the cap and is ranked third, behind e4,
\* and is still eligible.
C22_Witness ==
    /\ op = "recommend"
    /\ "results" \in DOMAIN response
    /\ HasDepartmentLimit
    /\ Len(response.results) = 3
    /\ response.results[1].employeeId = "e2"
    /\ response.results[2].employeeId = "e4"
    /\ response.results[3].employeeId = "e1"
    /\ response.results[3].eligible
    /\ response.results[3].rank = 3
    /\ WithoutDepartmentLimit.results[2].employeeId = "e1"

DeltaOf(evolution) == evolution.newScore - evolution.previousScore

\* the sum of the deltas of history at the positions from..Len(history)
RECURSIVE SumOfDeltasFrom(_, _)
SumOfDeltasFrom(history, from) ==
    IF from > Len(history)
    THEN 0
    ELSE DeltaOf(history[from]) + SumOfDeltasFrom(history, from + 1)

\* C23: progressionScore is 50 for an empty history and otherwise
\* clamp(50 + 2 * avg, 0, 100), avg being the mean delta over the last
\* min(5, n) evolutions; replacing an evolution older than the last five
\* leaves the score unchanged.
C23_ProgressionLastFive ==
    op = "calculateProgressionPotential" =>
        LET history == request.skillEvolution
            n == Len(history)
            m == IF n < 5 THEN n ELSE 5
            sum == SumOfDeltasFrom(history, n - m + 1)
        IN  /\ n = 0 => response = <<50, 1>>
            /\ n > 0 =>
                  \* response = clamp(50 + 2 * sum / m, 0, 100)
                  /\ (50 * m + 2 * sum <= 0) => response = <<0, 1>>
                  /\ (50 * m + 2 * sum >= 100 * m) => response = <<100, 1>>
                  /\ (0 < 50 * m + 2 * sum /\ 50 * m + 2 * sum < 100 * m) =>
                        response[1] * m = (50 * m + 2 * sum) * response[2]
            /\ \A i \in 1..(n - 5), other \in EvolutionChoices :
                  calculateProgressionPotential(
                      [history EXCEPT ![i] = other]) = response

\* C23 witness: a history of six evolutions whose oldest is a gain of 80 and
\* whose last five are four gains of 10 and a loss of 40 scored 50.
C23_Witness ==
    /\ op = "calculateProgressionPotential"
    /\ Len(request.skillEvolution) = 6
    /\ DeltaOf(request.skillEvolution[1]) = 80
    /\ SumOfDeltasFrom(request.skillEvolution, 2) = 0
    /\ response = <<50, 1>>

\* the strategy score of an employee, from its components
ExpectedStrategyScore(strategy, employee, activity) ==
    IF strategy = "UPSKILLING"
    THEN R(4 * calculateSkillGap(employee, activity)
              + 4 * employee.progressionPotential
              + 2 * employee.recentActivityEngagement, 10)
    ELSE RAdd(RDiv(averageSkillLevel(employee, activity.requiredSkills),
                   RInt(2)),
              R(3 * employee.yearsOfExperience
                   + 2 * countRelevantCertifications(employee, activity), 10))

\* C24: for Upskilling and Expertise, optimize returns a permutation of its
\* eligible input, each entry with the strategy score (gapScore * 0.4 +
\* progressionPotential * 0.4 + recentEngagement * 0.2, respectively
\* skillLevel * 0.5 + experience * 0.3 + certificationCount * 0.2), in
\* non-increasing order of that score.
C24_StrategyOrdering ==
    (op = "optimize" /\ request.strategy \in {"UPSKILLING", "EXPERTISE"}) =>
        LET result == response.result
            eligible == EligibleOf(request.employees, request.activity)
        IN  /\ Len(result) = Len(eligible)
            /\ \A i \in DOMAIN eligible : ListedOnce(result, eligible[i])
            /\ \A i \in DOMAIN result :
                  /\ \E j \in DOMAIN eligible :
                        eligible[j] = result[i].employee
                  /\ result[i].score
                        = ExpectedStrategyScore(request.strategy,
                              result[i].employee, request.activity)
            /\ \A i, j \in DOMAIN result :
                  i < j => RLe(result[j].score, result[i].score)

\* C24 witness: Upskilling over [e1, e3, e2], all eligible, returned
\* [e2 (92), e3 (58), e1 (26)].
C24_Witness ==
    /\ op = "optimize"
    /\ request.strategy = "UPSKILLING"
    /\ Len(request.employees) = 3
    /\ request.employees[1].id = "e1"
    /\ request.employees[2].id = "e3"
    /\ request.employees[3].id = "e2"
    /\ Len(response.result) = 3
    /\ response.result[1].employee.id = "e2"
    /\ response.result[1].score = RInt(92)
    /\ response.result[2].score = RInt(58)
    /\ response.result[3].score = RInt(26)

ParetoRunCancelled ==
    /\ op \in {"multiObjectiveOptimize.running", "multiObjectiveOptimize.done"}
    /\ request.cancelledAt >= 0

\* C25: once the cancellation signal is raised, the run performs no further
\* dominance comparison, and a run that had a comparison left to do when the
\* signal was raised returns no front.
C25_ParetoCancellation ==
    ParetoRunCancelled =>
        /\ response.comparisons = request.cancelledAt
        /\ (/\ op = "multiObjectiveOptimize.done"
            /\ response.comparisons > request.cancelledAt)
              => "result" \notin DOMAIN response

\* C26: for every sharding of the candidate list and every interleaving of
\* the workers, the ranked output of the sharded scoring equals the ranked
\* output of scoring the same list sequentially.
C26_ShardedEqualsSequential ==
    op = "scoreSharded.done" =>
        response.result = rankSequentially(request.employees,
                                           request.activity, request.weights)

\* C27: breakTies and optimize leave their inputs unchanged: after the call
\* the caller's list has the same elements in the same order as before.
C27_InputsUnchanged ==
    /\ op = "breakTies" => response.candidates = request.candidates
    /\ (op = "optimize" /\ "result" \in DOMAIN response) =>
          response.employees = request.employees

\* a precedes b in the ordering relation that breakTies sorts by
Precedes(a, b) == compareTies(a, b) < 0

\* C28: the ordering relation used by breakTies is a strict total order on
\* candidates with distinct ids: any two of them are ordered, one way only,
\* and the relation is transitive, with no three candidates A, B, C such
\* that A precedes B, B precedes C and C precedes A.
C28_TieOrderStrictTotal ==
    op = "breakTies" =>
        LET S == {request.candidates[i] : i \in DOMAIN request.candidates}
        IN  /\ \A a, b \in S :
                  a.id /= b.id => (Precedes(a, b) \/ Precedes(b, a))
            /\ \A a, b \in S : ~(Precedes(a, b) /\ Precedes(b, a))
            /\ \A a, b, c \in S :
                  (Precedes(a, b) /\ Precedes(b, c)) => Precedes(a, c)
            /\ \A a, b, c \in S :
                  ~(Precedes(a, b) /\ Precedes(b, c) /\ Precedes(c, a))

\* the employee's skills with the level of the held skill sk set to level
WithLevel(skills, sk, level) ==
    (skills \ {sk}) \cup {[sk EXCEPT !.level = level]}

IsRequired(activity, skillId) ==
    \E i \in DOMAIN activity.requiredSkills :
        activity.requiredSkills[i].skillId = skillId

\* C29: for a fixed activity, raising the employee's level on a held
\* required skill, or giving the employee a required optional skill it
\* lacked, at any level, never lowers skillScore.
C29_SkillScoreMonotone ==
    (op = "calculateScore" /\ "breakdown" \in DOMAIN response) =>
        LET skills == request.employee.skills
            reqs == request.activity.requiredSkills
            before == response.breakdown.skillScore
        IN  /\ \A sk \in skills, level \in Levels :
                  (/\ IsRequired(request.activity, sk.skillId)
                   /\ levelMap[level] > levelMap[sk.level]) =>
                     RLe(before,
                         calculateSkillMatch(WithLevel(skills, sk, level), reqs))
            /\ \A i \in DOMAIN reqs, level \in Levels :
                  (/\ ~reqs[i].isMandatory
                   /\ ~Holds(request.employee, reqs[i].skillId)) =>
                     RLe(before,
                         calculateSkillMatch(
                             skills \cup {SkillRecord(reqs[i].skillId, level)},
                             reqs))

\* C29 witness: on the example activity an employee holding A at EXPERT and
\* no B scored 60, and would score 74 with B at LOW.
C29_Witness ==
    /\ op = "calculateScore"
    /\ "breakdown" \in DOMAIN response
    /\ request.activity.requiredSkills = ExampleActivity.requiredSkills
    /\ request.employee.skills = {SkillRecord("A", "EXPERT")}
    /\ response.breakdown.skillScore = RInt(60)
    /\ calculateSkillMatch({SkillRecord("A", "EXPERT"), SkillRecord("B", "LOW")},
                           request.activity.requiredSkills) = RInt(74)

\* the role stored under an id changes in this step
RoleChanges ==
    \E i \in DOMAIN users, j \in DOMAIN users' :
        /\ users[i]._id = users'[j]._id
        /\ users[i].role /= users'[j].role

\* caller p's request is served in this step, and its requester's role is HR
ServedForHR(p) ==
    /\ calls[p].pc = "idle"
    /\ calls'[p].pc = "done"
    /\ calls'[p].dto.requesterRole = "HR"

\* C30: a stored user's role changes only in a step that serves the request
\* of a user whose role is HR; the requests of a MANAGER or an EMPLOYEE
\* leave every stored role as it was.
C30_RoleChangesOnlyByHR ==
    [][RoleChanges => \E p \in Callers : ServedForHR(p)]_vars

=============================================================================
